---- MODULE Spec2Model ----
(***************************************************************************)
(* A state-machine model of the AETHER-QKD simulator: the TEALController   *)
(* (controller/immune_system.py), the protocol orchestrators               *)
(* (protocols/teal.py, protocols/aether.py, protocols/aether_v3.py), the   *)
(* analysis engines and the circuit compiler / gate embedding              *)
(* (locking/core.py, physics/evolution.py).                                *)
(*                                                                         *)
(* Floats are fixed-point integers in units of 1/Scale.  A call of         *)
(* rng.random() is a raw value r in 0..RawLevels-1 standing for the float  *)
(* r/RawLevels in [0,1).                                                   *)
(***************************************************************************)
EXTENDS Integers, Sequences, FiniteSets, TLC

\* ------------------------------------------------------------------ bounds
MaxTestRounds == 31   \* largest num_test_rounds handed to run_diagnostics
RawLevels == 4        \* resolution of one rng.random() draw
MaxRuns == 3          \* runs executed in one process (determinism model)
MaxSeed == 1          \* seeds 0..MaxSeed
MaxN == 3             \* qubits of the compiled-circuit model

\* ------------------------------------------------- fixed-point arithmetic
Scale == 10 ^ 4
Bit == {0, 1}
Raw == 0 .. (RawLevels - 1)
None == "None"

\* rng.random() for the raw draw r, in units of 1/Scale
RandomOf(r) == (r * Scale) \div RawLevels

\* math.sqrt on a fixed-point value: floor of the square root of x >= 0
RECURSIVE ISqrtIter(_, _, _)
ISqrtIter(x, lo, hi) ==
  IF lo >= hi THEN lo
  ELSE LET mid == (lo + hi + 1) \div 2
       IN IF mid * mid <= x THEN ISqrtIter(x, mid, hi)
                            ELSE ISqrtIter(x, lo, mid - 1)
ISqrt(x) == ISqrtIter(x, 0, IF x < 46340 THEN x ELSE 46340)

Max2(a, b) == IF a >= b THEN a ELSE b

\* ------------------------------------------------------ program constants
MinSamples == 30          \* sifted_len < 30 takes the fail-safe branch
ZScoreNum == 196          \* self.z_score = 1.96
ZScoreDen == 100
GaussSigma == 50          \* rng.normalvariate(0, 0.005)
StdErrFloor == 10         \* "+ 0.001" of leakage_std_error
LockDepth == 8            \* 'locking_depth': 8
DiagBsmProb == 2500       \* rng.random() < 0.25 in TEALController._simulate_bsm
HalfProb == 5000          \* rng.random() < 0.5 in _bsm_mdi / simulate_perfect_bsm
FailSafeQberMean == 5000  \* 'qber_mean': 0.5
FailSafeBound == 10000    \* 'qber_upper_bound': 1.0, 'leakage_upper_bound': 1.0
DefaultQberThreshold == 300     \* qber_threshold = 0.03
DefaultLeakageThreshold == 150  \* leakage_threshold = 0.015
ForcedThreshold == 9990000      \* controller.qber_threshold = 999 (test_suite.py)

\* --------------------------------------------------------- input domains
LossLevels == {0, Scale \div 2}
NoiseLevels == {0, Scale \div 2}
LeakLevels == {0, 300, Scale}
QberThresholds == {0, DefaultQberThreshold, Scale, ForcedThreshold}
LeakageThresholds == {0, DefaultLeakageThreshold, Scale, ForcedThreshold}
GaussValues == {0 - 4 * GaussSigma, 0, GaussSigma}
TestRoundChoices == {0, MinSamples - 1, MinSamples, MaxTestRounds}
Seeds == 0 .. MaxSeed

\* ------------------------------------------------ components/sources.py
\* The four module-level arrays.  An amplitude is kept as its numerator: the
\* denominator is 1 for STATE_0, STATE_1 and sqrt(2) for STATE_PLUS, STATE_MINUS.
StateNames == {"STATE_0", "STATE_1", "STATE_PLUS", "STATE_MINUS"}
InitialArrays ==
  [s \in StateNames |->
     IF s = "STATE_0" THEN <<1, 0>>
     ELSE IF s = "STATE_1" THEN <<0, 1>>
     ELSE IF s = "STATE_PLUS" THEN <<1, 1>>
     ELSE <<1, 0 - 1>>]

\* prepare_bb84_qubit returns one of the four module-level arrays (the array
\* itself, not a copy): the model returns its name
prepare_bb84_qubit(bit_to_send, basis_choice) ==
  IF basis_choice = 0
  THEN (IF bit_to_send = 0 THEN "STATE_0" ELSE "STATE_1")
  ELSE (IF bit_to_send = 0 THEN "STATE_PLUS" ELSE "STATE_MINUS")

\* ----------------------------------------------- components/channels.py
\* rand_gen = rng if rng is not None else random
RandGen(gen) == IF gen # None THEN "rng" ELSE "global"

\* the channel as it would be if it ignored its rng argument and always drew
\* from the process-wide generator
apply_lossy_channel_global(photon_state, loss_probability, gen, rLocal, rGlobal) ==
  IF photon_state = None
  THEN [state |-> None, raised |-> FALSE, drawn |-> "none"]
  ELSE IF ~(0 <= loss_probability /\ loss_probability <= Scale)
  THEN [state |-> None, raised |-> TRUE, drawn |-> "none"]
  ELSE [state |-> IF RandomOf(rGlobal) < loss_probability THEN None ELSE photon_state,
        raised |-> FALSE, drawn |-> "global"]

\* apply_lossy_channel(photon_state, loss_probability, rng): rLocal is the next
\* draw of the generator passed as rng, rGlobal the next draw of the
\* process-wide generator.  drawn names the generator that was advanced.
apply_lossy_channel(photon_state, loss_probability, gen, rLocal, rGlobal) ==
  IF photon_state = None
  THEN [state |-> None, raised |-> FALSE, drawn |-> "none"]
  ELSE IF ~(0 <= loss_probability /\ loss_probability <= Scale)
  THEN [state |-> None, raised |-> TRUE, drawn |-> "none"]
  ELSE LET r == IF RandGen(gen) = "rng" THEN rLocal ELSE rGlobal
       IN [state |-> IF RandomOf(r) < loss_probability THEN None ELSE photon_state,
           raised |-> FALSE, drawn |-> RandGen(gen)]

\* ------------------------------------------ controller/immune_system.py
\* TEALController._simulate_bsm as it would be if it announced psi_plus for
\* equal bases whatever the two bits
ControllerSimulateBsm_any_bits(qubit_a, qubit_b, alice_bit, bob_bit, alice_basis, bob_basis, r) ==
  IF qubit_a = None \/ qubit_b = None THEN [announce |-> "fail", used |-> 0]
  ELSE IF alice_basis = bob_basis
  THEN [announce |-> IF RandomOf(r) < DiagBsmProb THEN "psi_plus" ELSE "fail", used |-> 1]
  ELSE [announce |-> "fail", used |-> 0]

\* TEALController._simulate_bsm; used is the number of draws taken from rng
ControllerSimulateBsm(qubit_a, qubit_b, alice_bit, bob_bit, alice_basis, bob_basis, r) ==
  IF qubit_a = None \/ qubit_b = None THEN [announce |-> "fail", used |-> 0]
  ELSE IF alice_basis = bob_basis
  THEN IF alice_bit = bob_bit
       THEN [announce |-> IF RandomOf(r) < DiagBsmProb THEN "psi_plus" ELSE "fail", used |-> 1]
       ELSE [announce |-> IF RandomOf(r) < DiagBsmProb THEN "psi_minus" ELSE "fail", used |-> 1]
  ELSE [announce |-> "fail", used |-> 0]

\* one iteration of the loop of run_diagnostics (lines 59-73) on the counters
\* d = [sifted_alice, sifted_bob, errors]: the lists are read only through
\* their lengths and their number of mismatches.  ds[k] is the k-th value the
\* iteration draws from rng, gs[k] the k-th it draws from the process-wide
\* generator; used and gused count the draws taken.
DiagRoundStep(d, true_channel_loss, ak, ab, bk, bb, ds, gs) ==
  LET qubit_a == prepare_bb84_qubit(ak, ab)
      qubit_b == prepare_bb84_qubit(bk, bb)
      ca == apply_lossy_channel(qubit_a, true_channel_loss, "rng", ds[1], gs[1])
      uA == IF ca.drawn = "rng" THEN 1 ELSE 0
      gA == IF ca.drawn = "global" THEN 1 ELSE 0
      cb == apply_lossy_channel(qubit_b, true_channel_loss, "rng", ds[uA + 1], gs[gA + 1])
      uB == IF cb.drawn = "rng" THEN 1 ELSE 0
      gB == IF cb.drawn = "global" THEN 1 ELSE 0
      bsm == ControllerSimulateBsm(ca.state, cb.state, ak, bk, ab, bb, ds[uA + uB + 1])
      bobBit == IF bsm.announce = "psi_minus" THEN 1 - bk ELSE bk
      bobAppends == bsm.announce \in {"psi_minus", "psi_plus"}
  IN IF ca.raised
     THEN [d |-> d, raised |-> TRUE, used |-> 0, gused |-> 0]
     ELSE IF cb.raised
     THEN [d |-> d, raised |-> TRUE, used |-> uA, gused |-> gA]
     ELSE IF bsm.announce # "fail"
     THEN [d |-> [sifted_alice |-> d.sifted_alice + 1,
                  sifted_bob |-> d.sifted_bob + (IF bobAppends THEN 1 ELSE 0),
                  errors |-> d.errors + (IF bobAppends /\ ak # bobBit THEN 1 ELSE 0)],
           raised |-> FALSE, used |-> uA + uB + bsm.used, gused |-> gA + gB]
     ELSE [d |-> d, raised |-> FALSE, used |-> uA + uB + bsm.used, gused |-> gA + gB]

\* the tail of run_diagnostics (lines 75-108) on the counters; gauss is the value
\* of rng.normalvariate(0, 0.005)
DiagStats(d, num_test_rounds, true_source_leakage, gauss) ==
  LET sifted_len == d.sifted_alice
  IN IF sifted_len < MinSamples
     THEN [raised |-> FALSE, failsafe |-> TRUE, used |-> 0,
           qber_mean |-> FailSafeQberMean, qber_upper_bound |-> FailSafeBound,
           leakage_upper_bound |-> FailSafeBound]
     ELSE LET qber_mean == (d.errors * Scale) \div sifted_len
              qber_var == (qber_mean * (Scale - qber_mean)) \div sifted_len
              qber_upper_bound == qber_mean + (ZScoreNum * ISqrt(qber_var)) \div ZScoreDen
              leakage_mean == true_source_leakage + gauss
              leakage_mean_clipped == Max2(0, leakage_mean)
              leakage_var == (leakage_mean_clipped * (Scale - leakage_mean_clipped))
                                \div num_test_rounds
              leakage_std_error == ISqrt(leakage_var) + StdErrFloor
              leakage_upper_bound ==
                 leakage_mean_clipped + (ZScoreNum * leakage_std_error) \div ZScoreDen
          IN IF leakage_var < 0    \* math.sqrt raises ValueError
             THEN [raised |-> TRUE, failsafe |-> FALSE, used |-> 1,
                   qber_mean |-> 0, qber_upper_bound |-> 0, leakage_upper_bound |-> 0]
             ELSE [raised |-> FALSE, failsafe |-> FALSE, used |-> 1,
                   qber_mean |-> qber_mean,
                   qber_upper_bound |-> Max2(0, qber_upper_bound),
                   leakage_upper_bound |-> Max2(0, leakage_upper_bound)]

\* is_qber_safe with the comparison '<=' instead of '<'
is_qber_safe_le(self, diagnostic_stats) ==
  diagnostic_stats.qber_upper_bound <= self.qber_threshold

\* make_adaptive_decision, line 114
is_qber_safe(self, diagnostic_stats) ==
  diagnostic_stats.qber_upper_bound < self.qber_threshold

\* make_adaptive_decision, line 115
is_leakage_safe(self, diagnostic_stats) ==
  diagnostic_stats.leakage_upper_bound < self.leakage_threshold

\* make_adaptive_decision with the two returned dictionaries exchanged
make_adaptive_decision_swapped(self, diagnostic_stats) ==
  IF is_qber_safe(self, diagnostic_stats) /\ is_leakage_safe(self, diagnostic_stats)
  THEN [mode |-> "Lock", locking_depth |-> LockDepth]
  ELSE [mode |-> "NoLock", locking_depth |-> 0]

\* TEALController.make_adaptive_decision
make_adaptive_decision(self, diagnostic_stats) ==
  IF is_qber_safe(self, diagnostic_stats) /\ is_leakage_safe(self, diagnostic_stats)
  THEN [mode |-> "NoLock", locking_depth |-> 0]
  ELSE [mode |-> "Lock", locking_depth |-> LockDepth]

\* decision = controller.make_adaptive_decision(stats) (teal.py line 60): the
\* protocols accept any controller object.  A controller record that carries a
\* locking_depth stands for one whose decision is fixed to Lock at that depth
\* (the forced identity lock of depth 0); every other one is a TEALController.
Decide(self, diagnostic_stats) ==
  IF "locking_depth" \in DOMAIN self
  THEN [mode |-> "Lock", locking_depth |-> self.locking_depth]
  ELSE make_adaptive_decision(self, diagnostic_stats)

\* ------------------------------------------------------ protocols/teal.py
\* _bsm_mdi; used is the number of draws taken from rng
_bsm_mdi(qa, qb, ak, bk, ab, bb, r) ==
  IF qa = None \/ qb = None THEN [announce |-> "fail", used |-> 0]
  ELSE IF ab = bb
  THEN IF ak = bk /\ RandomOf(r) < HalfProb THEN [announce |-> "psi_plus", used |-> 1]
       ELSE IF ak # bk /\ RandomOf(r) < HalfProb THEN [announce |-> "psi_minus", used |-> 1]
       ELSE [announce |-> "fail", used |-> 1]
  ELSE [announce |-> "fail", used |-> 0]

\* ---------------------------------------------------- protocols/aether.py
\* _simulate_bsm of protocols/aether.py: no draw, no failure but photon loss
_simulate_bsm(qubit_a, qubit_b, alice_bit, bob_bit, alice_basis, bob_basis, r) ==
  IF qubit_a = None \/ qubit_b = None THEN [announce |-> "fail", used |-> 0]
  ELSE IF alice_basis = bob_basis
  THEN [announce |-> IF alice_bit = bob_bit THEN "psi_plus" ELSE "psi_minus", used |-> 0]
  ELSE [announce |-> IF alice_bit = bob_bit THEN "phi_plus" ELSE "phi_minus", used |-> 0]

\* -------------------------------------------- components/aether_relay.py
simulate_perfect_bsm(qubit_a, qubit_b, alice_bit, bob_bit, alice_basis, bob_basis, r) ==
  IF qubit_a = None \/ qubit_b = None THEN [announce |-> "fail", used |-> 0]
  ELSE IF alice_basis = bob_basis
  THEN IF alice_bit = bob_bit
       THEN [announce |-> IF RandomOf(r) < HalfProb THEN "phi_plus" ELSE "psi_plus", used |-> 1]
       ELSE [announce |-> IF RandomOf(r) < HalfProb THEN "phi_minus" ELSE "psi_minus", used |-> 1]
  ELSE LET outcome == RandomOf(r)
       IN [announce |-> IF outcome < 2500 THEN "psi_minus"
                        ELSE IF outcome < 5000 THEN "psi_plus"
                        ELSE IF outcome < 7500 THEN "phi_minus"
                        ELSE "phi_plus",
           used |-> 1]

\* the relay model each orchestrator calls
Relay(proto, qa, qb, ak, bk, ab, bb, r) ==
  IF proto = "teal" THEN _bsm_mdi(qa, qb, ak, bk, ab, bb, r)
  ELSE IF proto = "aether" THEN _simulate_bsm(qa, qb, ak, bk, ab, bb, r)
  ELSE simulate_perfect_bsm(qa, qb, ak, bk, ab, bb, r)

\* ------------------------------------------------------- sifting rules
EmptyStreams ==
  [sifted_alice |-> <<>>, sifted_bob |-> <<>>,
   hq_alice |-> <<>>, hq_bob |-> <<>>, rc_alice |-> <<>>, rc_bob |-> <<>>]

\* teal.py lines 112-117 as they would be if Bob appended his bit as sent
TealSift_uninverted(sd, announce, eff_ak_i, bk_i) ==
  IF announce # "fail"
  THEN [sd EXCEPT !.sifted_alice = Append(@, eff_ak_i), !.sifted_bob = Append(@, bk_i)]
  ELSE sd

\* teal.py lines 112-117
TealSift(sd, announce, eff_ak_i, bk_i) ==
  IF announce # "fail"
  THEN [sd EXCEPT !.sifted_alice = Append(@, eff_ak_i),
                  !.sifted_bob = IF announce = "psi_minus" THEN Append(@, 1 - bk_i)
                                                           ELSE Append(@, bk_i)]
  ELSE sd

\* the matched-basis recovery rule where only 'psi_minus' inverts Bob's bit
HqRecover_psi_only(announce, bk_i) ==
  IF announce = "psi_minus" THEN 1 - bk_i ELSE bk_i

\* aether.py lines 66-67 (= aether_v3.py lines 46-47): Bob's high-quality bit
HqRecover(announce, bk_i) ==
  IF announce \in {"psi_minus", "phi_minus"} THEN 1 - bk_i ELSE bk_i

\* aether.py lines 70-73 (= aether_v3.py lines 52-53): Bob's recycled bit
RcRecover(announce, ab_i, bk_i) ==
  IF ab_i = 0
  THEN (IF announce \in {"psi_minus", "phi_plus"} THEN bk_i ELSE 1 - bk_i)
  ELSE (IF announce \in {"psi_minus", "phi_minus"} THEN bk_i ELSE 1 - bk_i)

\* aether.py lines 63-73 where Bob's recycled append is made for ab[i] == 0 only
AetherSift_unpaired(sd, announce, eff_ak_i, bk_i, ab_i, bb_i) ==
  IF announce # "fail"
  THEN IF ab_i = bb_i
       THEN [sd EXCEPT !.hq_alice = Append(@, eff_ak_i),
                       !.hq_bob = Append(@, HqRecover(announce, bk_i))]
       ELSE [sd EXCEPT !.rc_alice = Append(@, eff_ak_i),
                       !.rc_bob = IF ab_i = 0 THEN Append(@, RcRecover(announce, ab_i, bk_i))
                                  ELSE @]
  ELSE sd

\* the append of aether.py lines 63-73 made to both stream pairs when the bases differ
AetherSift_both_pairs(sd, announce, eff_ak_i, bk_i, ab_i, bb_i) ==
  IF announce # "fail"
  THEN IF ab_i = bb_i
       THEN [sd EXCEPT !.hq_alice = Append(@, eff_ak_i),
                       !.hq_bob = Append(@, HqRecover(announce, bk_i))]
       ELSE [sd EXCEPT !.hq_alice = Append(@, eff_ak_i),
                       !.hq_bob = Append(@, HqRecover(announce, bk_i)),
                       !.rc_alice = Append(@, eff_ak_i),
                       !.rc_bob = Append(@, RcRecover(announce, ab_i, bk_i))]
  ELSE sd

\* aether.py lines 63-73 (= aether_v3.py lines 43-53)
AetherSift(sd, announce, eff_ak_i, bk_i, ab_i, bb_i) ==
  IF announce # "fail"
  THEN IF ab_i = bb_i
       THEN [sd EXCEPT !.hq_alice = Append(@, eff_ak_i),
                       !.hq_bob = Append(@, HqRecover(announce, bk_i))]
       ELSE [sd EXCEPT !.rc_alice = Append(@, eff_ak_i),
                       !.rc_bob = Append(@, RcRecover(announce, ab_i, bk_i))]
  ELSE sd

\* the per-signal loop as it would be if the hardware bit-flip of Alice's bit
\* were applied in both modes
SignalStep_both_modes(proto, mode, noise, loss, eff_ak_i, bk_i, ab_i, bb_i, ds, gs) ==
  LET uF == 1
      flipA == RandomOf(ds[1]) < noise
      flipB == RandomOf(ds[uF + 1]) < noise
      a == IF flipA THEN 1 - eff_ak_i ELSE eff_ak_i
      b == IF flipB THEN 1 - bk_i ELSE bk_i
      qa == apply_lossy_channel(prepare_bb84_qubit(a, ab_i), loss, "rng", ds[uF + 2], gs[1])
      uA == IF qa.drawn = "rng" THEN 1 ELSE 0
      gA == IF qa.drawn = "global" THEN 1 ELSE 0
      qb == apply_lossy_channel(prepare_bb84_qubit(b, bb_i), loss, "rng",
                                ds[uF + 2 + uA], gs[gA + 1])
      uB == IF qb.drawn = "rng" THEN 1 ELSE 0
      gB == IF qb.drawn = "global" THEN 1 ELSE 0
      bsm == Relay(proto, qa.state, qb.state, a, b, ab_i, bb_i, ds[uF + 2 + uA + uB])
  IN IF qa.raised
     THEN [raised |-> TRUE, eff_ak_i |-> a, bk_i |-> b, announce |-> "fail",
           used |-> uF + 1, gused |-> 0]
     ELSE IF qb.raised
     THEN [raised |-> TRUE, eff_ak_i |-> a, bk_i |-> b, announce |-> "fail",
           used |-> uF + 1 + uA, gused |-> gA]
     ELSE [raised |-> FALSE, eff_ak_i |-> a, bk_i |-> b, announce |-> bsm.announce,
           used |-> uF + 1 + uA + uB + bsm.used, gused |-> gA + gB]

\* one iteration of the per-signal loop up to the relay announcement (teal.py
\* lines 98-110, aether.py lines 57-61, aether_v3.py lines 37-41) for the
\* signal with bits eff_ak_i, bk_i and bases ab_i, bb_i.  ds[k] is the k-th
\* value the iteration draws from rng, gs[k] the k-th it draws from the
\* process-wide generator; used and gused count the draws taken.
SignalStep(proto, mode, noise, loss, eff_ak_i, bk_i, ab_i, bb_i, ds, gs) ==
  LET uF == IF mode = "NoLock" THEN 1 ELSE 0
      flipA == mode = "NoLock" /\ RandomOf(ds[1]) < noise
      flipB == RandomOf(ds[uF + 1]) < noise
      a == IF flipA THEN 1 - eff_ak_i ELSE eff_ak_i
      b == IF flipB THEN 1 - bk_i ELSE bk_i
      qa == apply_lossy_channel(prepare_bb84_qubit(a, ab_i), loss, "rng", ds[uF + 2], gs[1])
      uA == IF qa.drawn = "rng" THEN 1 ELSE 0
      gA == IF qa.drawn = "global" THEN 1 ELSE 0
      qb == apply_lossy_channel(prepare_bb84_qubit(b, bb_i), loss, "rng",
                                ds[uF + 2 + uA], gs[gA + 1])
      uB == IF qb.drawn = "rng" THEN 1 ELSE 0
      gB == IF qb.drawn = "global" THEN 1 ELSE 0
      bsm == Relay(proto, qa.state, qb.state, a, b, ab_i, bb_i, ds[uF + 2 + uA + uB])
  IN IF qa.raised
     THEN [raised |-> TRUE, eff_ak_i |-> a, bk_i |-> b, announce |-> "fail",
           used |-> uF + 1, gused |-> 0]
     ELSE IF qb.raised
     THEN [raised |-> TRUE, eff_ak_i |-> a, bk_i |-> b, announce |-> "fail",
           used |-> uF + 1 + uA, gused |-> gA]
     ELSE [raised |-> FALSE, eff_ak_i |-> a, bk_i |-> b, announce |-> bsm.announce,
           used |-> uF + 1 + uA + uB + bsm.used, gused |-> gA + gB]

\* the append of the per-signal loop (teal.py lines 112-117, aether.py lines 63-73)
Sift(proto, sd, announce, eff_ak_i, bk_i, ab_i, bb_i) ==
  IF proto = "teal" THEN TealSift(sd, announce, eff_ak_i, bk_i)
  ELSE AetherSift(sd, announce, eff_ak_i, bk_i, ab_i, bb_i)

\* number of positions at which two sequences differ (sum(a != b for a, b in zip(..)))
RECURSIVE Mismatches(_, _)
Mismatches(xs, ys) ==
  IF xs = <<>> \/ ys = <<>> THEN 0
  ELSE (IF Head(xs) # Head(ys) THEN 1 ELSE 0) + Mismatches(Tail(xs), Tail(ys))

\* --------------------------------- analysis/finite_key_analysis_v2.py
FracBits == 14     \* fractional bits of the mantissa in Log2Scaled
LogIters == 12     \* fractional binary digits of log2 that are computed
LnInvEpsScaled == 2072326584   \* ln(1 / 1e-9) * Scale * Scale
EcEffNum == 11     \* error_correction_efficiency = 1.1
EcEffDen == 10

RECURSIVE FloorLog2(_)
FloorLog2(n) == IF n < 2 THEN 0 ELSE 1 + FloorLog2(n \div 2)

\* binary digits of log2(m / 2^FracBits) for a mantissa in [1, 2), in units 1/Scale
RECURSIVE Log2Frac(_, _, _)
Log2Frac(m, j, w) ==
  IF j = 0 THEN 0
  ELSE LET sq == (m * m) \div (2 ^ FracBits)
       IN IF sq >= 2 * (2 ^ FracBits)
          THEN w + Log2Frac(sq \div 2, j - 1, w \div 2)
          ELSE Log2Frac(sq, j - 1, w \div 2)

\* math.log2(n) for an integer n >= 1, in units of 1/Scale
Log2Scaled(n) ==
  LET e == FloorLog2(n)
      m == (n * (2 ^ FracBits)) \div (2 ^ e)
  IN e * Scale + Log2Frac(m, LogIters, Scale \div 2)

\* shannon_entropy(p) for p in units of 1/Scale
shannon_entropy(p) ==
  IF p <= 0 \/ p >= Scale THEN 0
  ELSE ((p * (Log2Scaled(Scale) - Log2Scaled(p)))
        + ((Scale - p) * (Log2Scaled(Scale) - Log2Scaled(Scale - p)))) \div Scale

\* chernoff_hoeffding_bound without the cap of its return statement
ChernoffBound_uncapped(num_errors, num_samples, ln_inv_eps) ==
  IF num_samples = 0 THEN Scale
  ELSE LET observed_rate == (num_errors * Scale) \div num_samples
           delta == ISqrt(ln_inv_eps \div (2 * num_samples))
       IN observed_rate + delta

\* chernoff_hoeffding_bound(num_errors, num_samples, security_parameter), the
\* security parameter being given as ln_inv_eps = math.log(1 / security_parameter)
\* in units of 1 / Scale^2
ChernoffBound(num_errors, num_samples, ln_inv_eps) ==
  IF num_samples = 0 THEN Scale
  ELSE LET observed_rate == (num_errors * Scale) \div num_samples
           delta == ISqrt(ln_inv_eps \div (2 * num_samples))
       IN IF observed_rate + delta > Scale THEN Scale ELSE observed_rate + delta

\* chernoff_hoeffding_bound with security_parameter = 1e-9, as calculate_finite_key_rate calls it
chernoff_hoeffding_bound(num_errors, num_samples) ==
  ChernoffBound(num_errors, num_samples, LnInvEpsScaled)

\* calculate_finite_key_rate: dict is the returned dictionary, leakage_term the
\* argument of shannon_entropy in eve_info_from_leakage (-1: line not reached),
\* raised the exception that ends the call ("none": the call returns)
calculate_finite_key_rate(sifted_key_len, num_errors, total_initial_qubits, source_leakage_rate) ==
  IF sifted_key_len = 0
  THEN [dict |-> ("qber_obs" :> 0) @@ ("qber_bound" :> Scale) @@ ("secure_key_rate" :> 0),
        leakage_term |-> 0 - 1, raised |-> "none"]
  ELSE IF total_initial_qubits = 0
  THEN [dict |-> <<>>, leakage_term |-> 0 - 1, raised |-> "ZeroDivisionError"]
  ELSE LET qber_observed == (num_errors * Scale) \div sifted_key_len
           qber_upper_bound == chernoff_hoeffding_bound(num_errors, sifted_key_len)
           sifting_efficiency == (sifted_key_len * Scale) \div total_initial_qubits
           eve_info_from_channel == shannon_entropy(qber_upper_bound)
           eve_info_from_leakage == shannon_entropy(source_leakage_rate)
           bob_error_correction_cost == (EcEffNum * shannon_entropy(qber_observed)) \div EcEffDen
           rate == (sifting_efficiency * (Scale - eve_info_from_channel - eve_info_from_leakage
                                          - bob_error_correction_cost)) \div Scale
       IN [dict |-> ("qber_obs" :> qber_observed) @@ ("qber_bound" :> qber_upper_bound)
                    @@ ("secure_key_rate" :> Max2(0, rate))
                    @@ ("sifted_key_length" :> sifted_key_len),
           leakage_term |-> source_leakage_rate, raised |-> "none"]

\* teal.py line 122 where the configured leakage is used in both modes
LeakageFinal_unlocked(mode, source_leakage_prob) == source_leakage_prob

\* teal.py line 122: leakage_final
LeakageFinal(mode, source_leakage_prob) ==
  IF mode = "NoLock" THEN source_leakage_prob ELSE 0

\* ------------------------------------------ analysis/aether_analysis.py
DiagMinSamples == 20     \* len(rc_alice) > 20

\* run_aether_analysis as it would be if the error-correction cost were taken
\* from the mismatches of the high-quality stream
run_aether_analysis_hq_cost(sd, total_initial_qubits, is_lock_mode, source_leakage_prob) ==
  LET qber_from_diagnostics ==
        IF Len(sd.rc_alice) > DiagMinSamples
        THEN (Mismatches(sd.rc_alice, sd.rc_bob) * Scale) \div Len(sd.rc_alice)
        ELSE 0
      qber_hq ==
        IF Len(sd.hq_alice) > 0
        THEN (Mismatches(sd.hq_alice, sd.hq_bob) * Scale) \div Len(sd.hq_alice)
        ELSE 0
      hq_sifted_length == Len(sd.hq_alice)
      sifting_efficiency ==
        IF total_initial_qubits > 0 THEN (hq_sifted_length * Scale) \div total_initial_qubits
        ELSE 0
      effective_leakage == IF ~is_lock_mode THEN source_leakage_prob ELSE 0
      rate == (sifting_efficiency * (Scale - shannon_entropy(qber_from_diagnostics)
                                     - shannon_entropy(effective_leakage)
                                     - ((EcEffNum * shannon_entropy(qber_hq)) \div EcEffDen)))
                 \div Scale
  IN [dict |-> ("diagnostic_qber" :> qber_from_diagnostics)
               @@ ("secure_key_rate" :> Max2(0, rate))
               @@ ("sifted_key_length" :> hq_sifted_length),
      leakage_term |-> effective_leakage]

\* run_aether_analysis (run_aether_v3_analysis computes the same values)
run_aether_analysis(sd, total_initial_qubits, is_lock_mode, source_leakage_prob) ==
  LET rc_alice == sd.rc_alice
      rc_bob == sd.rc_bob
      qber_from_diagnostics ==
        IF Len(rc_alice) > DiagMinSamples
        THEN (Mismatches(rc_alice, rc_bob) * Scale) \div Len(rc_alice)
        ELSE 0
      hq_sifted_length == Len(sd.hq_alice)
      sifting_efficiency ==
        IF total_initial_qubits > 0 THEN (hq_sifted_length * Scale) \div total_initial_qubits
        ELSE 0
      effective_leakage == IF ~is_lock_mode THEN source_leakage_prob ELSE 0
      eve_channel_info == shannon_entropy(qber_from_diagnostics)
      eve_leakage_info == shannon_entropy(effective_leakage)
      bob_error_correction_cost == (EcEffNum * shannon_entropy(qber_from_diagnostics)) \div EcEffDen
      rate == (sifting_efficiency * (Scale - eve_channel_info - eve_leakage_info
                                     - bob_error_correction_cost)) \div Scale
  IN [dict |-> ("diagnostic_qber" :> qber_from_diagnostics)
               @@ ("secure_key_rate" :> Max2(0, rate))
               @@ ("sifted_key_length" :> hq_sifted_length),
      leakage_term |-> effective_leakage]

\* ------------------------------------------ adversary/threat_models.py
\* SourceLeakageAdversary.execute_source_attack: the leakage amount (0 or 1)
execute_source_attack(strength, r) == IF RandomOf(r) < strength THEN 1 ELSE 0

\* ------------------------------------------------ lock engagement (abstract)
\* The rotations of the locking circuit are continuous; the run model keeps of
\* the compiled circuit its length, which fixes the draws evolution takes, and
\* of the evolved state its fidelity with the block's initial state.
FidelityLevels == {0, Scale}

\* build_adaptive_braid_v4_gate_list raises for n_qubits < 2 and depth > 0:
\* rng_py.randint(0, n_qubits - 2) is called on an empty range
BraidRaises(n_qubits, depth) == depth > 0 /\ n_qubits < 2

\* len(compile_circuit(n, build_adaptive_braid_v4_gate_list(n, depth, seed))) for
\* n < 4, where every generated pair is adjacent and is emitted as one gate
CompiledLength(n_qubits, depth) == depth

\* evolve_state_vector_noisily: number of gates followed by a Pauli error and
\* number of draws taken, ds[k] being the k-th draw
RECURSIVE EvolveNoise(_, _, _, _)
EvolveNoise(gates, noise_p, ds, k) ==
  IF gates = 0 THEN [events |-> 0, used |-> 0]
  ELSE IF noise_p > 0 /\ RandomOf(ds[k]) < noise_p
  THEN LET rest == EvolveNoise(gates - 1, noise_p, ds, k + 3)
       IN [events |-> rest.events + 1, used |-> rest.used + 3]
  ELSE IF noise_p > 0
  THEN LET rest == EvolveNoise(gates - 1, noise_p, ds, k + 1)
       IN [events |-> rest.events, used |-> rest.used + 1]
  ELSE EvolveNoise(gates - 1, noise_p, ds, k)

\* teal.py lines 87-95 (= aether.py lines 49-54): the index (0-based) of the bit
\* of eff_ak that the lock step flips, -1 when it flips none.
\* fid is the fidelity when at least one Pauli error was applied, rFlip the
\* draw compared with it and pos the value of rng.randint(0, block_size - 1)
LockStep(mode, compiled_len, noise, ds, fid, rFlip, pos) ==
  IF mode = "Lock"
  THEN LET ev == EvolveNoise(compiled_len, noise, ds, 1)
           fidelity == IF ev.events = 0 THEN Scale ELSE fid
       IN IF RandomOf(rFlip) > fidelity
          THEN [flip |-> pos, used |-> ev.used + 2]
          ELSE [flip |-> 0 - 1, used |-> ev.used + 1]
  ELSE [flip |-> 0 - 1, used |-> 0]

\* -------------------------------------------------- physics/evolution.py
\* A matrix is a function from row index to a function from column index to an
\* amplitude, indices from 0.  The model takes amplitudes in the integers.
MatDim(m) == Cardinality(DOMAIN m)
Ident(d) == [r \in 0 .. (d - 1) |-> [c \in 0 .. (d - 1) |-> IF r = c THEN 1 ELSE 0]]

RECURSIVE DotTo(_, _, _, _, _)
DotTo(a, b, r, c, k) ==
  IF k < 0 THEN 0 ELSE a[r][k] * b[k][c] + DotTo(a, b, r, c, k - 1)

\* a @ b
MatMul(a, b) ==
  LET d == MatDim(a)
  IN [r \in 0 .. (d - 1) |-> [c \in 0 .. (d - 1) |-> DotTo(a, b, r, c, d - 1)]]

\* m.T
Transpose(m) ==
  LET d == MatDim(m)
  IN [r \in 0 .. (d - 1) |-> [c \in 0 .. (d - 1) |-> m[c][r]]]

\* np.kron of two 2x2 matrices
Kron(a, b) ==
  [r \in 0 .. 3 |-> [c \in 0 .. 3 |-> a[r \div 2][c \div 2] * b[r % 2][c % 2]]]

I2 == Ident(2)
PauliX == [r \in 0 .. 1 |-> [c \in 0 .. 1 |-> IF r # c THEN 1 ELSE 0]]
PauliZ == [r \in 0 .. 1 |-> [c \in 0 .. 1 |-> IF r # c THEN 0 ELSE IF r = 0 THEN 1 ELSE 0 - 1]]
CNOT_2 ==
  [r \in 0 .. 3 |-> [c \in 0 .. 3 |->
     IF (r = 0 /\ c = 0) \/ (r = 1 /\ c = 1) \/ (r = 2 /\ c = 3) \/ (r = 3 /\ c = 2)
     THEN 1 ELSE 0]]
SWAP_2 ==
  [r \in 0 .. 3 |-> [c \in 0 .. 3 |->
     IF (r = 0 /\ c = 0) \/ (r = 1 /\ c = 2) \/ (r = 2 /\ c = 1) \/ (r = 3 /\ c = 3)
     THEN 1 ELSE 0]]

\* the single-qubit rotations the model hands to the compiler, by name
RotationNames == {"I", "X", "Z"}
Rotation(name) == IF name = "I" THEN I2 ELSE IF name = "X" THEN PauliX ELSE PauliZ

\* local_pair_gate_from_rotations: rotations then CNOT
local_pair_gate_from_rotations(Rc, Rt) == MatMul(CNOT_2, Kron(Rc, Rt))

\* [int(c) for c in f'{i:0{n}b}'][q]: bit q (from 0, most significant first) of i
BitOf(i, n, q) == (i \div (2 ^ (n - 1 - q))) % 2

\* int("".join(map(str, [bits[t] for t in ts])), 2) for the bits of index i
RECURSIVE LocalIdx(_, _, _, _)
LocalIdx(i, n, ts, x) ==
  IF x > Len(ts) THEN 0
  ELSE BitOf(i, n, ts[x]) * (2 ^ (Len(ts) - x)) + LocalIdx(i, n, ts, x + 1)

\* sorted(targets)
RECURSIVE InsertSorted(_, _)
InsertSorted(x, seq) ==
  IF seq = <<>> THEN <<x>>
  ELSE IF x <= Head(seq) THEN <<x>> \o seq
  ELSE <<Head(seq)>> \o InsertSorted(x, Tail(seq))
RECURSIVE sorted(_)
sorted(seq) == IF seq = <<>> THEN <<>> ELSE InsertSorted(Head(seq), sorted(Tail(seq)))

\* targets.index(t), from 1
IndexOf(seq, t) == CHOOSE x \in 1 .. Len(seq) : seq[x] = t /\ \A y \in 1 .. (x - 1) : seq[y] # t

\* raise ValueError("Gate dims mismatch"): the call yields no matrix
GateDimsMismatch == <<>>

\* _gate_on_n as it would be if it sorted the targets without permuting the gate
_gate_on_n_unpermuted(gate, n_qubits, targets) ==
  LET k == Len(targets)
      sorted_targets == sorted(targets)
      perm == [x \in 1 .. k |-> IndexOf(targets, sorted_targets[x])]
      dim == 2 ^ k
      \* P[out, i] = 1 where bits_out[x] = bits_in[perm[x]]
      P == [r \in 0 .. (dim - 1) |-> [i \in 0 .. (dim - 1) |->
              IF \A x \in 1 .. k : BitOf(r, k, x - 1) = BitOf(i, k, perm[x] - 1)
              THEN 1 ELSE 0]]
      gate_local == gate
      targets_use == sorted_targets
      D == 2 ^ n_qubits
      other_indices == {q \in 0 .. (n_qubits - 1) : \A x \in 1 .. k : targets_use[x] # q}
  IN IF MatDim(gate) # dim THEN GateDimsMismatch
     ELSE [j \in 0 .. (D - 1) |-> [i \in 0 .. (D - 1) |->
             IF \A q \in other_indices : BitOf(j, n_qubits, q) = BitOf(i, n_qubits, q)
             THEN gate_local[LocalIdx(j, n_qubits, targets_use, 1)]
                            [LocalIdx(i, n_qubits, targets_use, 1)]
             ELSE 0]]

\* _gate_on_n(gate, n_qubits, targets): targets is a sequence of qubit indices
_gate_on_n(gate, n_qubits, targets) ==
  LET k == Len(targets)
      sorted_targets == sorted(targets)
      perm == [x \in 1 .. k |-> IndexOf(targets, sorted_targets[x])]
      dim == 2 ^ k
      \* P[out, i] = 1 where bits_out[x] = bits_in[perm[x]]
      P == [r \in 0 .. (dim - 1) |-> [i \in 0 .. (dim - 1) |->
              IF \A x \in 1 .. k : BitOf(r, k, x - 1) = BitOf(i, k, perm[x] - 1)
              THEN 1 ELSE 0]]
      gate_local == IF sorted_targets # targets
                    THEN MatMul(MatMul(P, gate), Transpose(P))
                    ELSE gate
      targets_use == sorted_targets
      D == 2 ^ n_qubits
      other_indices == {q \in 0 .. (n_qubits - 1) : \A x \in 1 .. k : targets_use[x] # q}
  IN IF MatDim(gate) # dim THEN GateDimsMismatch
     ELSE [j \in 0 .. (D - 1) |-> [i \in 0 .. (D - 1) |->
             IF \A q \in other_indices : BitOf(j, n_qubits, q) = BitOf(i, n_qubits, q)
             THEN gate_local[LocalIdx(j, n_qubits, targets_use, 1)]
                            [LocalIdx(i, n_qubits, targets_use, 1)]
             ELSE 0]]

\* the body of the loop of build_unitary_from_compiled (lines 107-112): the
\* n-qubit operator of one compiled gate
CompiledGateUnitary(n_qubits, g) ==
  IF g.type = "SWAP"
  THEN _gate_on_n(SWAP_2, n_qubits, sorted(<<g.a, g.b>>))
  ELSE _gate_on_n(local_pair_gate_from_rotations(Rotation(g.Rc), Rotation(g.Rt)),
                  n_qubits, sorted(<<g.c, g.t>>))

\* ------------------------------------------------------- locking/core.py
\* list(range(c, t, 1 if c < t else -1))
RECURSIVE RangePath(_, _)
RangePath(c, t) ==
  IF c = t THEN <<>>
  ELSE <<c>> \o RangePath(IF c < t THEN c + 1 ELSE c - 1, t)

\* list(zip(path, path[1:])) as SWAP gates
SwapsOf(path) ==
  [x \in 1 .. (IF Len(path) = 0 THEN 0 ELSE Len(path) - 1) |->
     [type |-> "SWAP", a |-> path[x], b |-> path[x + 1]]]

Reversed(seq) == [x \in 1 .. Len(seq) |-> seq[Len(seq) + 1 - x]]

\* the body of the loop of compile_circuit as it would be if the Swaps after the
\* gate were emitted in the order of those before it
CompileGate_unreversed(g) ==
  IF g.c - g.t = 1 \/ g.t - g.c = 1
  THEN <<[type |-> "G", c |-> g.c, t |-> g.t, Rc |-> g.Rc, Rt |-> g.Rt]>>
  ELSE LET path == RangePath(g.c, g.t)
           swaps == SwapsOf(path)
       IN swaps \o <<[type |-> "G", c |-> path[Len(path)], t |-> g.t, Rc |-> g.Rc, Rt |-> g.Rt]>>
                \o swaps

\* the body of the loop of compile_circuit as it would be without routing: the
\* gate is emitted on the abstract pair whatever the distance
CompileGate_unrouted(g) ==
  <<[type |-> "G", c |-> g.c, t |-> g.t, Rc |-> g.Rc, Rt |-> g.Rt]>>

\* the body of the loop of compile_circuit (lines 76-83) for one abstract gate
CompileGate(g) ==
  IF g.c - g.t = 1 \/ g.t - g.c = 1
  THEN <<[type |-> "G", c |-> g.c, t |-> g.t, Rc |-> g.Rc, Rt |-> g.Rt]>>
  ELSE LET path == RangePath(g.c, g.t)
           swaps == SwapsOf(path)
       IN swaps \o <<[type |-> "G", c |-> path[Len(path)], t |-> g.t, Rc |-> g.Rc, Rt |-> g.Rt]>>
                \o Reversed(swaps)

\* compile_circuit(n_qubits, gate_list)
RECURSIVE compile_circuit(_, _)
compile_circuit(n_qubits, gate_list) ==
  IF gate_list = <<>> THEN <<>>
  ELSE CompileGate(Head(gate_list)) \o compile_circuit(n_qubits, Tail(gate_list))

\* ------------------------------------------------------------------ state
VARIABLES
  cfg,            \* arguments of the call: proto, num_qubits, block_size, loss, noise, leak, seed, num_test_rounds
  ctl,            \* the TEALController: qber_threshold, leakage_threshold
  pc,             \* position in the run
  diag,           \* locals of run_diagnostics: i, sifted_alice, sifted_bob, errors
  stats,          \* dictionary returned by run_diagnostics
  decision,       \* dictionary returned by make_adaptive_decision
  compiled_lock,  \* length of the compiled locking circuit (-1: not built)
  blk,            \* locals of the block loop: index, sig, ak, ab, bk, bb, eff_ak, flip (bit the lock step flipped, -1: none), announce (of the last signal)
  sifted_data,    \* the sifted streams
  total_leakage,  \* aether.py: sum of the block leakages
  report,         \* dictionary returned by the run
  leakage_term,   \* leakage rate handed to shannon_entropy by the analysis
  rng,            \* random.Random(seed): seed and number of draws taken
  grng,           \* the process-wide generator of module random: seed and draws taken
  history,        \* finished runs of the process
  arrays,         \* contents of the module-level arrays of components/sources.py
  fidelity_memo,  \* fidelities computed so far in the process, by their arguments
  circ,           \* compile_circuit / build_unitary_from_compiled: gate, compiled list, U
  adversary       \* the adversary object handed to the run: its attributes and the calls made on it

vars == <<cfg, ctl, pc, diag, stats, decision, compiled_lock, blk, sifted_data,
          total_leakage, report, leakage_term, rng, grng, history, arrays,
          fidelity_memo, circ, adversary>>

NoStats == [raised |-> FALSE, failsafe |-> FALSE, used |-> 0, qber_mean |-> 0,
            qber_upper_bound |-> 0, leakage_upper_bound |-> 0]
NoDecision == [mode |-> "none", locking_depth |-> 0]
NoDiag == [i |-> 0, sifted_alice |-> 0, sifted_bob |-> 0, errors |-> 0]
NoBlock == [index |-> 0, sig |-> 0, ak |-> <<>>, ab |-> <<>>, bk |-> <<>>, bb |-> <<>>,
            eff_ak |-> <<>>, flip |-> 0 - 1, announce |-> "none"]
NoReport == <<>>
NoCirc == [pc |-> "none"]
NoAdversary == [class |-> "none"]

\* (num_qubits, block_size) of the runs
RunShapes == {<<0, 1>>, <<2, 1>>, <<3, 2>>}
RunLeakLevels == {0, 100}
RunThresholds == {<<DefaultQberThreshold, DefaultLeakageThreshold>>}
Protocols == {"teal", "aether", "aether_v3"}

\* the protocols call run_diagnostics(2000, ...); the model runs MaxTestRounds rounds
ProtocolTestRounds == MaxTestRounds

RunConfigs ==
  {[proto |-> p, num_qubits |-> sh[1], block_size |-> sh[2], loss |-> l, noise |-> n,
    leak |-> k, seed |-> 0, num_test_rounds |-> ProtocolTestRounds] :
     p \in Protocols, sh \in RunShapes, l \in LossLevels, n \in NoiseLevels, k \in RunLeakLevels}

ControllerCalls ==
  {[proto |-> "controller", num_qubits |-> 0, block_size |-> 1, loss |-> l, noise |-> 0,
    leak |-> k, seed |-> 0, num_test_rounds |-> t] :
     l \in LossLevels, k \in LeakLevels, t \in TestRoundChoices}

\* the locals of a call with arguments c on the controller t, at position p
RunVarsAt(c, t, p) ==
  /\ cfg = c
  /\ ctl = t
  /\ pc = p
  /\ diag = NoDiag
  /\ stats = NoStats
  /\ decision = NoDecision
  /\ compiled_lock = 0 - 1
  /\ blk = NoBlock
  /\ sifted_data = EmptyStreams
  /\ total_leakage = 0
  /\ report = NoReport
  /\ leakage_term = 0 - 1
  /\ rng = [seed |-> c.seed, pos |-> 0]

\* the start of a call with arguments c on the controller t
StartState(c, t) == RunVarsAt(c, t, "diag")

\* a fresh process: nothing has run, the arrays are as the module defines them
FreshProcess(global_seed) ==
  /\ grng = [seed |-> global_seed, pos |-> 0]
  /\ history = <<>>
  /\ arrays = InitialArrays
  /\ fidelity_memo = {}
  /\ circ = NoCirc
  /\ adversary = NoAdversary

\* a protocol run: rng = random.Random(seed) and a controller built beforehand
Init ==
  /\ \E c \in RunConfigs, t \in RunThresholds :
        StartState(c, [qber_threshold |-> t[1], leakage_threshold |-> t[2]])
  /\ FreshProcess(0)

\* a direct use of the controller (test_controller.py)
InitCtl ==
  /\ \E c \in ControllerCalls, q \in QberThresholds, l \in LeakageThresholds :
        StartState(c, [qber_threshold |-> q, leakage_threshold |-> l])
  /\ FreshProcess(0)

\* ------------------------------------------------------- random draws
\* A comparison of rng.random() with a threshold is monotone in the draw, so
\* the two extreme draws produce every outcome that some draw produces.
ExtremeRaw == {0, RawLevels - 1}
BitLists(n) == [1 .. n -> Bit]
NumBlocks == cfg.num_qubits \div cfg.block_size
IsProtocol == cfg.proto \in Protocols

\* the draws of one test round and of one signal, in the order taken; the relay
\* of aether_v3 splits the unit interval in four
DiagDraws == [1 .. 3 -> ExtremeRaw]
SignalDraws(proto) == [1 .. 5 -> IF proto = "aether_v3" THEN Raw ELSE ExtremeRaw]

\* ------------------------------------------------- outcomes of the draws
\* what one test round adds to the counters, over all draws of the round
DiagRoundOutcomes ==
  <<>> @@ [loss \in LossLevels |->
     {LET s == DiagRoundStep([sifted_alice |-> 0, sifted_bob |-> 0, errors |-> 0], loss,
                             ak, ab, bk, bb, ds, ds)
      IN [d |-> s.d, raised |-> s.raised] :
        ak \in Bit, ab \in Bit, bk \in Bit, bb \in Bit, ds \in DiagDraws}]

\* the results of one signal, over all draws of the signal
SignalOutcomes ==
  <<>> @@ [k \in Protocols \X {"Lock", "NoLock"} \X NoiseLevels \X LossLevels
                  \X Bit \X Bit \X Bit \X Bit |->
     {LET s == SignalStep(k[1], k[2], k[3], k[4], k[5], k[6], k[7], k[8], ds, ds)
      IN [raised |-> s.raised, eff_ak_i |-> s.eff_ak_i, bk_i |-> s.bk_i,
          announce |-> s.announce] :
        ds \in SignalDraws(k[1])}]

\* the flips of the lock step, over all draws of the step
LockOutcomes ==
  <<>> @@ [k \in {"Lock", "NoLock"} \X NoiseLevels \X {1, 2, 3} |->
     {LockStep(k[1], CompiledLength(k[3], LockDepth), k[2],
               [j \in 1 .. (3 * LockDepth) |-> rEv], fid, rFlip, pos).flip :
        rEv \in ExtremeRaw, fid \in FidelityLevels, rFlip \in ExtremeRaw,
        pos \in 0 .. (k[3] - 1)}]

\* ----------------------------------------------------------- actions
\* run_diagnostics, lines 59-73: one test round.  The four lists of lines 52-55
\* are drawn element by element as each round reads them.
DiagRoundWith(res) ==
  /\ pc = "diag"
  /\ diag.i < cfg.num_test_rounds
  /\ IF res.raised
     THEN /\ pc' = "raised"
          /\ diag' = diag
     ELSE /\ pc' = pc
          /\ diag' = [i |-> diag.i + 1,
                      sifted_alice |-> diag.sifted_alice + res.d.sifted_alice,
                      sifted_bob |-> diag.sifted_bob + res.d.sifted_bob,
                      errors |-> diag.errors + res.d.errors]
  /\ UNCHANGED <<cfg, ctl, stats, decision, compiled_lock, blk, sifted_data,
                 total_leakage, report, leakage_term, history, arrays, circ, adversary>>

DiagRound ==
  /\ \E res \in DiagRoundOutcomes[cfg.loss] : DiagRoundWith(res)
  /\ UNCHANGED <<rng, grng, fidelity_memo>>

\* run_diagnostics, lines 75-108, then make_adaptive_decision and, in a protocol
\* run, the lock preparation (teal.py lines 59-68, aether.py lines 27-36).  The
\* locals of run_diagnostics end with the call; an orchestrator reads stats only
\* to take the decision, and the model of a run drops it there.
DiagnoseWith(gauss) ==
  LET st == DiagStats([sifted_alice |-> diag.sifted_alice, sifted_bob |-> diag.sifted_bob,
                       errors |-> diag.errors], cfg.num_test_rounds, cfg.leak, gauss)
      dec == Decide(ctl, st)
  IN /\ pc = "diag"
     /\ diag.i = cfg.num_test_rounds
     /\ stats' = IF IsProtocol /\ ~st.raised THEN NoStats ELSE st
     /\ diag' = NoDiag
     /\ IF st.raised
        THEN /\ pc' = "raised"
             /\ UNCHANGED <<decision, compiled_lock>>
        ELSE /\ decision' = dec
             /\ IF ~IsProtocol
                THEN pc' = "decided" /\ UNCHANGED compiled_lock
                ELSE IF dec.mode = "Lock" /\ BraidRaises(cfg.block_size, dec.locking_depth)
                THEN pc' = "raised" /\ UNCHANGED compiled_lock
                ELSE /\ pc' = "block"
                     /\ compiled_lock' = IF dec.mode = "Lock"
                                         THEN CompiledLength(cfg.block_size, dec.locking_depth)
                                         ELSE compiled_lock
     /\ UNCHANGED <<cfg, ctl, blk, sifted_data, total_leakage, report, leakage_term,
                    history, arrays, circ, adversary>>

Diagnose ==
  /\ \E gauss \in GaussValues : DiagnoseWith(gauss)
  /\ UNCHANGED <<rng, grng, fidelity_memo>>

\* top of the block loop: the four lists, the source attack (aether) and the lock
\* step (teal.py lines 77-95, aether.py lines 42-54)
StartBlockWith(ak, ab, bk, bb, block_leakage, flip) ==
  /\ pc = "block"
  /\ blk.index < NumBlocks
  /\ blk' = [index |-> blk.index, sig |-> 0, ak |-> ak, ab |-> ab, bk |-> bk, bb |-> bb,
             eff_ak |-> IF flip >= 0 THEN [ak EXCEPT ![flip + 1] = 1 - @] ELSE ak,
             flip |-> flip, announce |-> "none"]
  /\ total_leakage' = total_leakage + block_leakage
  /\ pc' = "signal"
  /\ UNCHANGED <<cfg, ctl, diag, stats, decision, compiled_lock, sifted_data, report,
                 leakage_term, history, arrays, circ, adversary>>

StartBlock ==
  /\ pc = "block"
  /\ blk.index < NumBlocks
  /\ \E ak, ab, bk, bb \in BitLists(cfg.block_size),
        block_leakage \in (IF cfg.proto = "teal" THEN {0}
                           ELSE {execute_source_attack(cfg.leak, r) : r \in ExtremeRaw}),
        flip \in LockOutcomes[<<decision.mode, cfg.noise, cfg.block_size>>] :
        StartBlockWith(ak, ab, bk, bb, block_leakage, flip)
  /\ UNCHANGED <<rng, grng, fidelity_memo>>

\* one signal of the block (teal.py lines 98-117, aether.py lines 56-73)
SignalWith(res) ==
  LET i == blk.sig + 1
  IN /\ pc = "signal"
     /\ IF res.raised
        THEN pc' = "raised" /\ UNCHANGED <<blk, sifted_data>>
        ELSE /\ sifted_data' = Sift(cfg.proto, sifted_data, res.announce, res.eff_ak_i,
                                    res.bk_i, blk.ab[i], blk.bb[i])
             /\ blk' = [blk EXCEPT !.eff_ak[i] = res.eff_ak_i, !.bk[i] = res.bk_i, !.sig = i,
                                   !.announce = res.announce,
                                   !.index = IF i = cfg.block_size THEN @ + 1 ELSE @]
             /\ pc' = IF i = cfg.block_size THEN "block" ELSE "signal"
     /\ UNCHANGED <<cfg, ctl, diag, stats, decision, compiled_lock, total_leakage, report,
                    leakage_term, history, arrays, circ, adversary>>

Signal ==
  /\ pc = "signal"
  /\ LET i == blk.sig + 1
     IN \E res \in SignalOutcomes[<<cfg.proto, decision.mode, cfg.noise, cfg.loss,
                                    blk.eff_ak[i], blk.bk[i], blk.ab[i], blk.bb[i]>>] :
           SignalWith(res)
  /\ UNCHANGED <<rng, grng, fidelity_memo>>

\* the report of the run (teal.py lines 119-132, aether.py lines 75-85)
RunReport ==
  IF cfg.proto = "teal"
  THEN LET sifted_len == Len(sifted_data.sifted_alice)
           errors == Mismatches(sifted_data.sifted_alice, sifted_data.sifted_bob)
           leakage_final == LeakageFinal(decision.mode, cfg.leak)
       IN calculate_finite_key_rate(sifted_len, errors, cfg.num_qubits, leakage_final)
  ELSE LET leakage_prob == IF NumBlocks > 0 THEN (total_leakage * Scale) \div NumBlocks ELSE 0
       IN run_aether_analysis(sifted_data, cfg.num_qubits, decision.mode = "Lock", leakage_prob)

\* the end of the run as it would be if the report named a fixed mode
Analyze_fixed_mode ==
  /\ pc = "block"
  /\ blk.index = NumBlocks
  /\ report' = RunReport.dict @@ ("mode_chosen" :> "NoLock")
  /\ leakage_term' = RunReport.leakage_term
  /\ pc' = "done"
  /\ UNCHANGED <<cfg, ctl, diag, stats, decision, compiled_lock, blk, sifted_data,
                 total_leakage, rng, grng, history, arrays, fidelity_memo, circ, adversary>>

Analyze ==
  /\ pc = "block"
  /\ blk.index = NumBlocks
  /\ report' = RunReport.dict @@ ("mode_chosen" :> decision.mode)
  /\ leakage_term' = RunReport.leakage_term
  /\ pc' = "done"
  /\ UNCHANGED <<cfg, ctl, diag, stats, decision, compiled_lock, blk, sifted_data,
                 total_leakage, rng, grng, history, arrays, fidelity_memo, circ, adversary>>

Next == DiagRound \/ Diagnose \/ StartBlock \/ Signal \/ Analyze

Spec == Init /\ [][Next]_vars

NextCtl == DiagRound \/ Diagnose

SpecCtl == InitCtl /\ [][NextCtl]_vars

\* ------------------------------ compiling and building one abstract gate
NoCall == [proto |-> "none", num_qubits |-> 0, block_size |-> 1, loss |-> 0, noise |-> 0,
           leak |-> 0, seed |-> 0, num_test_rounds |-> 0]
DefaultController ==
  [qber_threshold |-> DefaultQberThreshold, leakage_threshold |-> DefaultLeakageThreshold]

\* the abstract gates ('G', c, t, Rc, Rt) on n qubits with c != t
AbstractGates(n) ==
  {[type |-> "G", c |-> c, t |-> t, Rc |-> a, Rt |-> b] :
     c \in 0 .. (n - 1), t \in 0 .. (n - 1), a \in RotationNames, b \in RotationNames}
  \ {g \in [type : {"G"}, c : 0 .. (n - 1), t : 0 .. (n - 1), Rc : RotationNames,
                Rt : RotationNames] : g.c = g.t}

\* a call of compile_circuit on a one-gate list, followed by
\* build_unitary_from_compiled on the result
InitGate ==
  /\ RunVarsAt(NoCall, DefaultController, "idle")
  /\ grng = [seed |-> 0, pos |-> 0]
  /\ history = <<>>
  /\ arrays = InitialArrays
  /\ fidelity_memo = {}
  /\ adversary = NoAdversary
  /\ \E n \in 2 .. MaxN :
        \E g \in AbstractGates(n) :
           circ = [pc |-> "abstract", n_qubits |-> n, gate_list |-> <<g>>,
                   compiled_list |-> <<>>, idx |-> 0, U |-> Ident(2 ^ n)]

runVars == <<cfg, ctl, pc, diag, stats, decision, compiled_lock, blk, sifted_data,
             total_leakage, report, leakage_term, rng, grng, history, arrays,
             fidelity_memo, adversary>>

\* compile_circuit (locking/core.py lines 72-84)
Compile ==
  /\ circ.pc = "abstract"
  /\ circ' = [circ EXCEPT !.pc = "compiled",
                          !.compiled_list = compile_circuit(circ.n_qubits, circ.gate_list)]
  /\ UNCHANGED runVars

\* build_unitary_from_compiled, one iteration of the loop (lines 106-113)
ApplyCompiledGate ==
  /\ circ.pc = "compiled"
  /\ circ.idx < Len(circ.compiled_list)
  /\ circ' = [circ EXCEPT !.idx = @ + 1,
                          !.U = MatMul(CompiledGateUnitary(circ.n_qubits,
                                                           circ.compiled_list[circ.idx + 1]), @)]
  /\ UNCHANGED runVars

\* build_unitary_from_compiled, line 114: return U
ReturnUnitary ==
  /\ circ.pc = "compiled"
  /\ circ.idx = Len(circ.compiled_list)
  /\ circ' = [circ EXCEPT !.pc = "built"]
  /\ UNCHANGED runVars

NextGate == Compile \/ ApplyCompiledGate \/ ReturnUnitary

SpecGate == InitGate /\ [][NextGate]_vars

\* ------------------------------------------- the lock step on the matrices
\* teal.py lines 65-68 and 89-95 for one block of n qubits: the circuit is
\* compiled and its unitary inverted, the block state is evolved gate by gate
\* with the Pauli noise of evolve_state_vector_noisily, unlocked and compared
\* with the state prepared.  circ.E is the operator the evolution has applied so
\* far, so that psi_final = E @ psi_init for whatever block is evolved.

\* PAULI_1Q_LIST[k], k = 1 .. 3; Y is kept as the real matrix Y / i, the phase i
\* of a noise gate being invisible in |vdot(psi_init, psi_unlocked)|**2
PauliReal(k) ==
  IF k = 1 THEN PauliX
  ELSE IF k = 2 THEN [r \in 0 .. 1 |-> [c \in 0 .. 1 |->
                        IF r = c THEN 0 ELSE IF r = 0 THEN 0 - 1 ELSE 1]]
  ELSE PauliZ
\* the pairs (rng.randint(1, 3), rng.randint(1, 3)) the model lets a noise event draw
NoiseEvents == {<<1, 2>>, <<3, 1>>}

\* the same matrix with every entry computed
Evaluated(m) == <<>> @@ [r \in DOMAIN m |-> <<>> @@ m[r]]

\* build_unitary_from_compiled(n_qubits, compiled_list), lines 105-114
RECURSIVE UnitaryOfPrefix(_, _, _)
UnitaryOfPrefix(n_qubits, compiled_list, k) ==
  IF k = 0 THEN Ident(2 ^ n_qubits)
  ELSE Evaluated(MatMul(Evaluated(CompiledGateUnitary(n_qubits, compiled_list[k])),
                        UnitaryOfPrefix(n_qubits, compiled_list, k - 1)))
build_unitary_from_compiled(n_qubits, compiled_list) ==
  UnitaryOfPrefix(n_qubits, compiled_list, Len(compiled_list))

\* teal.py line 68 as it would be without the inversion
Unlock_not_inverted(U) == U

\* teal.py line 68: .conj().T of a real matrix
Unlock(U) == Evaluated(Transpose(U))

\* evolve_state_vector_noisily, lines 140-156: the operator one gate applies,
\* event being <<>> when no noise is applied after it
EvolveGateOp(n_qubits, g, event) ==
  LET U_gate == Evaluated(CompiledGateUnitary(n_qubits, g))
      targets == sorted(IF g.type = "SWAP" THEN <<g.a, g.b>> ELSE <<g.c, g.t>>)
  IN IF event = <<>> THEN U_gate
     ELSE Evaluated(MatMul(Evaluated(_gate_on_n(Kron(PauliReal(event[1]), PauliReal(event[2])),
                                                n_qubits, targets)),
                           U_gate))

\* matrix @ vector, and np.vdot of two real vectors
RECURSIVE RowDot(_, _, _)
RowDot(row, v, k) == IF k < 0 THEN 0 ELSE row[k] * v[k] + RowDot(row, v, k - 1)
MatVec(m, v) == <<>> @@ [r \in DOMAIN m |-> RowDot(m[r], v, MatDim(m) - 1)]
VDot(u, v) == RowDot(u, v, Cardinality(DOMAIN u) - 1)

\* teal.py lines 83-85: np.kron of the prepared qubits, as numerators
RECURSIVE BlockState(_, _, _, _)
BlockState(arr, ak, ab, k) ==
  IF k = 0 THEN [x \in 0 .. 0 |-> 1]
  ELSE LET rest == BlockState(arr, ak, ab, k - 1)
           q == arr[prepare_bb84_qubit(ak[k], ab[k])]
       IN <<>> @@ [x \in 0 .. ((2 ^ k) - 1) |-> rest[x \div 2] * q[(x % 2) + 1]]

\* teal.py line 93: |vdot(psi_init, psi_unlocked)|**2 for the numerators
FidelityOf(psi_init, psi_unlocked) ==
  (Scale * VDot(psi_init, psi_unlocked) * VDot(psi_init, psi_unlocked))
     \div (VDot(psi_init, psi_init) * VDot(psi_init, psi_init))

\* the blocks whose state the model evolves: all bits 0 or alternating bits,
\* for the keys and for the bases
BlockPatterns(n) == {[i \in 1 .. n |-> 0], [i \in 1 .. n |-> i % 2]}
LockRotations == {<<"I", "X">>, <<"X", "Z">>, <<"Z", "I">>}
LockGates(n) == {g \in AbstractGates(n) : <<g.Rc, g.Rt>> \in LockRotations}

InitLock ==
  /\ RunVarsAt(NoCall, DefaultController, "idle")
  /\ grng = [seed |-> 0, pos |-> 0]
  /\ history = <<>>
  /\ arrays = InitialArrays
  /\ fidelity_memo = {}
  /\ adversary = NoAdversary
  /\ \E n \in 2 .. MaxN, len \in 0 .. 1, noise \in NoiseLevels :
        \E gl \in [1 .. len -> LockGates(n)] :
           circ = [pc |-> "abstract", n_qubits |-> n, gate_list |-> gl, noise_p |-> noise,
                   compiled_list |-> <<>>, U_unlock |-> Ident(2 ^ n), idx |-> 0,
                   E |-> Ident(2 ^ n), fidelity |-> 0 - 1, flip |-> 0 - 1]

\* teal.py lines 65-68
LockPrepare ==
  /\ circ.pc = "abstract"
  /\ LET compiled == compile_circuit(circ.n_qubits, circ.gate_list)
     IN circ' = [circ EXCEPT !.pc = "evolve",
                             !.compiled_list = compiled,
                             !.U_unlock = Unlock(build_unitary_from_compiled(circ.n_qubits, compiled))]
  /\ UNCHANGED runVars

\* evolve_state_vector_noisily, one iteration of the loop
LockEvolveGate ==
  /\ circ.pc = "evolve"
  /\ circ.idx < Len(circ.compiled_list)
  /\ \E event \in {<<>>} \cup (IF circ.noise_p > 0 THEN NoiseEvents ELSE {}) :
        circ' = [circ EXCEPT !.idx = @ + 1,
                             !.E = Evaluated(MatMul(EvolveGateOp(circ.n_qubits,
                                                       circ.compiled_list[circ.idx + 1], event), @))]
  /\ UNCHANGED runVars

\* teal.py lines 92-95 for one block
LockUnlock ==
  /\ circ.pc = "evolve"
  /\ circ.idx = Len(circ.compiled_list)
  /\ \E ak \in BlockPatterns(circ.n_qubits), ab \in BlockPatterns(circ.n_qubits),
        rFlip \in ExtremeRaw :
        LET psi_init == BlockState(arrays, ak, ab, circ.n_qubits)
            psi_unlocked == MatVec(circ.U_unlock, MatVec(circ.E, psi_init))
            fidelity == FidelityOf(psi_init, psi_unlocked)
        IN \E pos \in IF RandomOf(rFlip) > fidelity THEN 0 .. (circ.n_qubits - 1)
                                                      ELSE {0 - 1} :
              circ' = [circ EXCEPT !.pc = "unlocked", !.fidelity = fidelity, !.flip = pos]
  /\ UNCHANGED runVars

NextLock == LockPrepare \/ LockEvolveGate \/ LockUnlock

SpecLock == InitLock /\ [][NextLock]_vars

\* ------------------------------- the calls a run makes on its adversary
\* adversary/threat_models.py: the attributes the constructors set; adapt_calls
\* and attacks count the calls the run has made on the object
SourceLeakageAdversary(strength) ==
  [class |-> "SourceLeakageAdversary", strength |-> strength, adapt_calls |-> 0, attacks |-> 0]
AdaptiveAdversary(base_strength) ==
  [class |-> "AdaptiveAdversary", base_strength |-> base_strength,
   current_strength |-> base_strength, adapt_calls |-> 0, attacks |-> 0]

\* adapt_to_protocol_choice: Adversary (line 10) and AdaptiveAdversary (lines 32-39)
adapt_to_protocol_choice(self, mode) ==
  IF self.class = "AdaptiveAdversary"
  THEN [self EXCEPT !.current_strength = IF mode = "NoLock" THEN self.base_strength * 2
                                                            ELSE self.base_strength,
                    !.adapt_calls = @ + 1]
  ELSE [self EXCEPT !.adapt_calls = @ + 1]

\* the strength execute_source_attack compares its draw with (lines 19, 42)
AttackStrength(self) ==
  IF self.class = "AdaptiveAdversary" THEN self.current_strength ELSE self.strength

\* the orchestrators that take an adversary
AdversaryRuns == {"teal_rigor", "aether", "aether_v3"}
AdversaryCalls ==
  {[proto |-> "adversary", run |-> f, num_qubits |-> sh[1], block_size |-> sh[2],
    loss |-> 0, noise |-> 0, leak |-> 0, seed |-> 0, num_test_rounds |-> ProtocolTestRounds] :
     f \in AdversaryRuns, sh \in {<<0, 1>>, <<2, 1>>, <<3, 2>>}}

\* number of source attacks of the run: one per signal on the NoLock path of
\* teal_rigor.py (lines 61-65) and none on its Lock path, one per block in
\* aether.py (line 43) and aether_v3.py (line 24)
AttackCount ==
  IF cfg.run = "teal_rigor"
  THEN (IF decision.mode = "NoLock" THEN cfg.num_qubits ELSE 0)
  ELSE cfg.num_qubits \div cfg.block_size

InitAdversary ==
  /\ \E c \in AdversaryCalls, t \in RunThresholds :
        RunVarsAt(c, [qber_threshold |-> t[1], leakage_threshold |-> t[2]], "start")
  /\ grng = [seed |-> 0, pos |-> 0]
  /\ history = <<>>
  /\ arrays = InitialArrays
  /\ fidelity_memo = {}
  /\ circ = NoCirc
  /\ \E k \in RunLeakLevels : adversary \in {SourceLeakageAdversary(k), AdaptiveAdversary(k)}

\* the argument adversary.strength of the call of run_diagnostics
\* (teal_rigor.py line 48, aether.py line 27, aether_v3.py line 10)
ReadStrength ==
  /\ pc = "start"
  /\ IF "strength" \in DOMAIN adversary
     THEN pc' = "diag" /\ cfg' = [cfg EXCEPT !.leak = adversary.strength]
     ELSE pc' = "AttributeError" /\ cfg' = cfg
  /\ UNCHANGED <<ctl, diag, stats, decision, compiled_lock, blk, sifted_data, total_leakage,
                 report, leakage_term, rng, grng, history, arrays, fidelity_memo, circ,
                 adversary>>

\* teal_rigor.py lines 50-53: the decision is read and handed to the adversary;
\* aether.py lines 29-40 and aether_v3.py lines 12-21 make no call on it
AnnounceMode ==
  /\ pc = "decided"
  /\ cfg.proto = "adversary"
  /\ adversary' = IF cfg.run = "teal_rigor"
                  THEN adapt_to_protocol_choice(adversary, decision.mode)
                  ELSE adversary
  /\ pc' = "attack"
  /\ UNCHANGED <<cfg, ctl, diag, stats, decision, compiled_lock, blk, sifted_data,
                 total_leakage, report, leakage_term, rng, grng, history, arrays,
                 fidelity_memo, circ>>

\* adversary.execute_source_attack(.., rng) and the sum of its leakage
SourceAttack ==
  /\ pc = "attack"
  /\ adversary.attacks < AttackCount
  /\ \E r \in ExtremeRaw :
        total_leakage' = total_leakage + execute_source_attack(AttackStrength(adversary), r)
  /\ adversary' = [adversary EXCEPT !.attacks = @ + 1]
  /\ UNCHANGED <<cfg, ctl, pc, diag, stats, decision, compiled_lock, blk, sifted_data,
                 report, leakage_term, rng, grng, history, arrays, fidelity_memo, circ>>

\* the loop ends and the run returns
AttacksDone ==
  /\ pc = "attack"
  /\ adversary.attacks = AttackCount
  /\ pc' = "done"
  /\ UNCHANGED <<cfg, ctl, diag, stats, decision, compiled_lock, blk, sifted_data,
                 total_leakage, report, leakage_term, rng, grng, history, arrays,
                 fidelity_memo, circ, adversary>>

NextAdversary ==
  ReadStrength \/ DiagRound \/ Diagnose \/ AnnounceMode \/ SourceAttack \/ AttacksDone

SpecAdversary == InitAdversary /\ [][NextAdversary]_vars

\* --------------------------------------- runs of one process, draw by draw
\* random.Random(seed): the value of the draw number pos (from 0) of the
\* generator seeded with seed.  Any fixed function of seed and pos serves.
Tape(seed, pos) ==
  ((seed + 2) * (pos + 1) * (pos + 3) + (pos \div 2) + (seed + 1) * (pos \div 3)) % RawLevels

\* rng.randint(0, 1) at draw number pos
TapeBit(seed, pos) == Tape(seed, pos) % 2

\* rng.normalvariate(0, 0.005) for the raw draw r
GaussOf(r) ==
  IF r = 0 THEN 0 - 4 * GaussSigma ELSE IF r = RawLevels - 1 THEN GaussSigma ELSE 0

\* the next n draws of the generator g = [seed, pos] that stands at draw number at
NextDraws(g, at, n) == [k \in 1 .. n |-> Tape(g.seed, at + k - 1)]

DetShapes == {<<4, 2>>}
DetConfigs ==
  {[proto |-> "teal", num_qubits |-> sh[1], block_size |-> sh[2], loss |-> Scale \div 2,
    noise |-> Scale \div 2, leak |-> 0, seed |-> sd, num_test_rounds |-> ProtocolTestRounds] :
     sh \in DetShapes, sd \in Seeds}
\* the controllers of test_suite.py: thresholds 0 (Lock) and 999 (NoLock)
DetThresholds ==
  {[qber_threshold |-> 0, leakage_threshold |-> 0],
   [qber_threshold |-> ForcedThreshold, leakage_threshold |-> ForcedThreshold]}

\* a controller whose decision is forced to Lock with locking depth 0
IdentityLockController ==
  [qber_threshold |-> 0, leakage_threshold |-> 0, locking_depth |-> 0]
NoLockController ==
  [qber_threshold |-> ForcedThreshold, leakage_threshold |-> ForcedThreshold]
DetControllers == DetThresholds \cup {IdentityLockController}

\* a process in which no protocol has run yet
InitDet ==
  /\ RunVarsAt(NoCall, DefaultController, "idle")
  /\ FreshProcess(0)

processVars == <<grng, history, arrays, fidelity_memo, circ, adversary>>

\* a call of run_teal_protocol (teal.py line 55: rng = random.Random(rng_seed))
StartRun ==
  /\ pc = "idle"
  /\ Len(history) < MaxRuns
  /\ \E c \in DetConfigs, t \in DetControllers :
        /\ cfg' = c
        /\ ctl' = t
        /\ rng' = [seed |-> c.seed, pos |-> 0]
  /\ pc' = "diag"
  /\ diag' = NoDiag
  /\ stats' = NoStats
  /\ decision' = NoDecision
  /\ compiled_lock' = 0 - 1
  /\ blk' = NoBlock
  /\ sifted_data' = EmptyStreams
  /\ total_leakage' = 0
  /\ report' = NoReport
  /\ leakage_term' = 0 - 1
  /\ UNCHANGED processVars

\* draw number at which the loop of run_diagnostics stands: the four lists of
\* lines 52-55 take the first 4 * num_test_rounds draws
DiagBase == Max2(rng.pos, 4 * cfg.num_test_rounds)

\* run_diagnostics, lines 59-73, with the draws of rng
DetDiagRound ==
  /\ pc = "diag"
  /\ diag.i < cfg.num_test_rounds
  /\ LET n == cfg.num_test_rounds
         res == DiagRoundStep([sifted_alice |-> 0, sifted_bob |-> 0, errors |-> 0], cfg.loss,
                              TapeBit(rng.seed, diag.i), TapeBit(rng.seed, n + diag.i),
                              TapeBit(rng.seed, 2 * n + diag.i),
                              TapeBit(rng.seed, 3 * n + diag.i),
                              NextDraws(rng, DiagBase, 3), NextDraws(grng, grng.pos, 2))
     IN /\ DiagRoundWith(res)
        /\ rng' = [rng EXCEPT !.pos = DiagBase + res.used]
        /\ grng' = [grng EXCEPT !.pos = @ + res.gused]
  /\ UNCHANGED fidelity_memo

\* run_diagnostics, lines 75-108, and the decision, with the draws of rng
DetDiagnose ==
  /\ pc = "diag"
  /\ diag.i = cfg.num_test_rounds
  /\ LET gauss == GaussOf(Tape(rng.seed, DiagBase))
         st == DiagStats([sifted_alice |-> diag.sifted_alice, sifted_bob |-> diag.sifted_bob,
                          errors |-> diag.errors], cfg.num_test_rounds, cfg.leak, gauss)
     IN /\ DiagnoseWith(gauss)
        /\ rng' = [rng EXCEPT !.pos = DiagBase + st.used]
  /\ UNCHANGED <<grng, fidelity_memo>>

\* a state vector up to its sign: a fidelity |<a|b>|^2 does not change when a
\* factor of the product state changes sign
Ray(v) == IF v[1] < 0 \/ (v[1] = 0 /\ v[2] < 0) THEN <<0 - v[1], 0 - v[2]>> ELSE v

\* psi_init (teal.py lines 83-85): the contents of the arrays that
\* prepare_bb84_qubit returns for the block, each up to its sign
PsiInit(ak, ab) == [i \in 1 .. Len(ak) |-> Ray(arrays[prepare_bb84_qubit(ak[i], ab[i])])]

\* top of the block loop of teal.py (lines 77-95) with the draws of rng.  The
\* fidelity of line 93 is a function of the compiled circuit (fixed by seed and
\* block size), of the Pauli errors (fixed by the noise level and the draws from
\* this position on) and of psi_init: the first evaluation on given arguments
\* chooses its value, every later one on the same arguments finds the same value.
DetStartBlock ==
  /\ pc = "block"
  /\ blk.index < NumBlocks
  /\ LET bs == cfg.block_size
         ak == [i \in 1 .. bs |-> TapeBit(rng.seed, rng.pos + i - 1)]
         ab == [i \in 1 .. bs |-> TapeBit(rng.seed, rng.pos + bs + i - 1)]
         bk == [i \in 1 .. bs |-> TapeBit(rng.seed, rng.pos + 2 * bs + i - 1)]
         bb == [i \in 1 .. bs |-> TapeBit(rng.seed, rng.pos + 3 * bs + i - 1)]
         at == rng.pos + 4 * bs
         ds == NextDraws(rng, at, 3 * LockDepth)
         locked == decision.mode = "Lock"
         ev == IF locked THEN EvolveNoise(compiled_lock, cfg.noise, ds, 1)
               ELSE [events |-> 0, used |-> 0]
         key == <<cfg.seed, bs, cfg.noise, at, PsiInit(ak, ab)>>
         known == {m \in fidelity_memo : m.key = key}
         computed == locked /\ ev.events > 0
         values == IF ~computed THEN {Scale}
                   ELSE IF known # {} THEN {m.fid : m \in known}
                   ELSE FidelityLevels
     IN \E fid \in values :
          LET ls == LockStep(decision.mode, compiled_lock, cfg.noise, ds, fid,
                             Tape(rng.seed, at + ev.used),
                             Tape(rng.seed, at + ev.used + 1) % bs)
          IN /\ StartBlockWith(ak, ab, bk, bb, 0, ls.flip)
             /\ rng' = [rng EXCEPT !.pos = at + ls.used]
             /\ fidelity_memo' = IF computed THEN fidelity_memo \cup {[key |-> key, fid |-> fid]}
                                 ELSE fidelity_memo
  /\ UNCHANGED grng

\* one signal of teal.py (lines 98-117) with the draws of rng
DetSignal ==
  /\ pc = "signal"
  /\ LET i == blk.sig + 1
         res == SignalStep(cfg.proto, decision.mode, cfg.noise, cfg.loss,
                           blk.eff_ak[i], blk.bk[i], blk.ab[i], blk.bb[i],
                           NextDraws(rng, rng.pos, 5), NextDraws(grng, grng.pos, 2))
     IN /\ SignalWith(res)
        /\ rng' = [rng EXCEPT !.pos = @ + res.used]
        /\ grng' = [grng EXCEPT !.pos = @ + res.gused]
  /\ UNCHANGED fidelity_memo

\* what the caller of a run holds afterwards
RunRecord ==
  [cfg |-> cfg, ctl |-> ctl, sifted_data |-> sifted_data, report |-> report, outcome |-> pc]

\* the call returns (teal.py line 132) or ends with the exception raised
Return ==
  /\ pc \in {"done", "raised"}
  /\ history' = Append(history, RunRecord)
  /\ pc' = "idle"
  /\ UNCHANGED <<cfg, ctl, diag, stats, decision, compiled_lock, blk, sifted_data,
                 total_leakage, report, leakage_term, rng, grng, arrays, fidelity_memo, circ, adversary>>

BackupTealRecord ==
  [cfg |-> [proto |-> "backup_teal"], ctl |-> DefaultController, sifted_data |-> EmptyStreams,
   report |-> NoReport, outcome |-> "done"]

\* a NoLock run of protocols/backup_teal.py in the same process, of which the
\* model keeps one execution of line 60 (or 62): the array that
\* prepare_bb84_qubit returned is changed in place, qubit_a[rng.randint(0,1)] *= -1.
\* A process is followed up to its first such run.
BackupTealRun ==
  /\ pc = "idle"
  /\ Len(history) < MaxRuns
  /\ arrays = InitialArrays
  /\ \E bit \in Bit, basis \in Bit, idx \in Bit :
        arrays' = [arrays EXCEPT ![prepare_bb84_qubit(bit, basis)][idx + 1] = 0 - @]
  /\ history' = Append(history, BackupTealRecord)
  /\ UNCHANGED <<cfg, ctl, pc, diag, stats, decision, compiled_lock, blk, sifted_data,
                 total_leakage, report, leakage_term, rng, grng, fidelity_memo, circ, adversary>>

NextDet ==
  \/ StartRun
  \/ DetDiagRound
  \/ DetDiagnose
  \/ DetStartBlock
  \/ DetSignal
  \/ Analyze
  \/ Return
  \/ BackupTealRun

SpecDet == InitDet /\ [][NextDet]_vars

\* ------------------------------------------------------ protocols/bb84.py
\* A qubit of run_bb84_protocol is a complex vector: each amplitude is the pair
\* <<re, im>> of its numerators, the denominator being that of the prepared array.
Complex(v) == <<(<<v[1], 0>>), (<<v[2], 0>>)>>
\* None in a place where a vector is expected
NoneVector == <<>>
\* None in a place where a bit is expected
NoneBit == 0 - 1
CNeg(z) == <<0 - z[1], 0 - z[2]>>
CTimesI(z) == <<0 - z[2], z[1]>>
CAbs2(z) == (z[1] * z[1]) + (z[2] * z[2])
Norm2(q) == CAbs2(q[1]) + CAbs2(q[2])

\* PAULI_1Q_LIST[k] @ qubit, k = 0 .. 3 being I, X, Y, Z
PauliNames == 1 .. 3
ApplyPauli(k, q) ==
  IF k = 0 THEN q
  ELSE IF k = 1 THEN <<q[2], q[1]>>
  ELSE IF k = 2 THEN <<CNeg(CTimesI(q[2])), CTimesI(q[1])>>
  ELSE <<q[1], CNeg(q[2])>>

\* components/relays.py, measure_qubit(photon_state, basis_choice, rng): rLocal is
\* the next draw of the generator passed as rng, rGlobal the next draw of the
\* process-wide generator; the basis vector is read from the module-level array
measure_qubit(photon_state, basis_choice, gen, rLocal, rGlobal, arr) ==
  IF photon_state = NoneVector
  THEN [result |-> NoneBit, raised |-> FALSE, drawn |-> "none"]
  ELSE IF basis_choice \notin {0, 1}
  THEN [result |-> NoneBit, raised |-> TRUE, drawn |-> "none"]
  ELSE LET basis_0_vector == Complex(IF basis_choice = 0 THEN arr["STATE_0"]
                                     ELSE arr["STATE_PLUS"])
           inner_product ==
             <<(basis_0_vector[1][1] * photon_state[1][1]) + (basis_0_vector[2][1] * photon_state[2][1]),
               (basis_0_vector[1][1] * photon_state[1][2]) + (basis_0_vector[2][1] * photon_state[2][2])>>
           prob_0 == (Scale * CAbs2(inner_product))
                        \div (Norm2(basis_0_vector) * Norm2(photon_state))
           r == IF RandGen(gen) = "rng" THEN rLocal ELSE rGlobal
       IN [result |-> IF RandomOf(r) < prob_0 THEN 0 ELSE 1,
           raised |-> FALSE, drawn |-> RandGen(gen)]

\* analysis/key_rate.py, secure_key_rate with the default efficiency 1.1; its
\* shannon_entropy is the function of finite_key_analysis_v2.py
secure_key_rate(qber, sifting_efficiency, leakage_rate) ==
  IF ~(0 <= qber /\ qber <= Scale) \/ ~(0 <= sifting_efficiency /\ sifting_efficiency <= Scale)
  THEN "ValueError"
  ELSE LET error_correction_leakage == (EcEffNum * shannon_entropy(qber)) \div EcEffDen
           eve_information == shannon_entropy(qber) + shannon_entropy(leakage_rate)
           rate == (sifting_efficiency * (Scale - error_correction_leakage - eve_information))
       IN Max2(0, IF rate >= 0 THEN rate \div Scale ELSE 0 - ((0 - rate) \div Scale))

\* one iteration of the loop of run_bb84_protocol, lines 49-69: ds are the values
\* drawn from rng in order (ds[1] the noise draw, ds[2] the channel draw, ds[3]
\* the measurement draw if rng were passed on), pauli the value of
\* rng.randint(1, 3), gs the values drawn from the process-wide generator
Bb84Step(sd, hardware_noise_prob, channel_loss_prob, ak, ab, bb, ds, pauli, gs, arr) ==
  LET prepared == Complex(arr[prepare_bb84_qubit(ak, ab)])
      noisy == RandomOf(ds[1]) < hardware_noise_prob
      qubit == IF noisy THEN ApplyPauli(pauli, prepared) ELSE prepared
      u1 == IF noisy THEN 2 ELSE 1
      \* the channel returns the object it was handed, or None
      ch == apply_lossy_channel("qubit", channel_loss_prob, "rng", ds[2], gs[1])
      qubit_after_channel == IF ch.state = None THEN NoneVector ELSE qubit
      u2 == IF ch.drawn = "rng" THEN 1 ELSE 0
      g2 == IF ch.drawn = "global" THEN 1 ELSE 0
      bob == measure_qubit(qubit_after_channel, bb, None, ds[3], gs[g2 + 1], arr)
      u3 == IF bob.drawn = "rng" THEN 1 ELSE 0
      g3 == IF bob.drawn = "global" THEN 1 ELSE 0
  IN [sd |-> IF bob.result # NoneBit /\ ab = bb
             THEN [sd EXCEPT !.sifted_alice = Append(@, ak),
                             !.sifted_bob = Append(@, bob.result)]
             ELSE sd,
      raised |-> ch.raised \/ bob.raised,
      used |-> u1 + u2 + u3,
      gused |-> g2 + g3]

\* lines 72-84
Bb84Report(sd, num_qubits, source_leakage_prob) ==
  LET sifted_len == Len(sd.sifted_alice)
      errors == Mismatches(sd.sifted_alice, sd.sifted_bob)
  IN IF sifted_len = 0
     THEN [qber |-> 0, secure_key_rate |-> 0, sifted_key_length |-> 0]
     ELSE [qber |-> (errors * Scale) \div sifted_len,
           secure_key_rate |-> secure_key_rate((errors * Scale) \div sifted_len,
                                               (sifted_len * Scale) \div num_qubits,
                                               source_leakage_prob),
           sifted_key_length |-> sifted_len]

Bb84Sizes == {0, 2}
Bb84Configs ==
  {[proto |-> "bb84", num_qubits |-> n, block_size |-> 1, loss |-> l, noise |-> h,
    leak |-> k, seed |-> 0, num_test_rounds |-> 0] :
     n \in Bb84Sizes, l \in LossLevels, h \in NoiseLevels, k \in RunLeakLevels}

\* a call of run_bb84_protocol in a fresh process; the protocol has no controller
InitBb84 ==
  /\ \E c \in Bb84Configs : RunVarsAt(c, None, "prepare")
  /\ FreshProcess(0)

\* lines 38-45: the key and the two basis lists, num_qubits calls of randint each
Bb84Prepare ==
  /\ pc = "prepare"
  /\ \E ak \in BitLists(cfg.num_qubits), ab \in BitLists(cfg.num_qubits),
        bb \in BitLists(cfg.num_qubits) :
        blk' = [blk EXCEPT !.ak = ak, !.ab = ab, !.bb = bb]
  /\ rng' = [rng EXCEPT !.pos = @ + (3 * cfg.num_qubits)]
  /\ pc' = "signal"
  /\ UNCHANGED <<cfg, ctl, diag, stats, decision, compiled_lock, sifted_data,
                 total_leakage, report, leakage_term, grng, history, arrays,
                 fidelity_memo, circ, adversary>>

Bb84Signal ==
  /\ pc = "signal"
  /\ blk.sig < cfg.num_qubits
  /\ \E ds \in [1 .. 3 -> ExtremeRaw], pauli \in PauliNames, gs \in [1 .. 2 -> ExtremeRaw] :
        LET i == blk.sig + 1
            res == Bb84Step(sifted_data, cfg.noise, cfg.loss, blk.ak[i], blk.ab[i],
                            blk.bb[i], ds, pauli, gs, arrays)
        IN /\ sifted_data' = res.sd
           /\ rng' = [rng EXCEPT !.pos = @ + res.used]
           /\ grng' = [grng EXCEPT !.pos = @ + res.gused]
           /\ pc' = IF res.raised THEN "raised" ELSE "signal"
  /\ blk' = [blk EXCEPT !.sig = @ + 1]
  /\ UNCHANGED <<cfg, ctl, diag, stats, decision, compiled_lock, total_leakage,
                 report, leakage_term, history, arrays, fidelity_memo, circ, adversary>>

Bb84Analyze ==
  /\ pc = "signal"
  /\ blk.sig = cfg.num_qubits
  /\ report' = Bb84Report(sifted_data, cfg.num_qubits, cfg.leak)
  /\ pc' = "done"
  /\ UNCHANGED <<cfg, ctl, diag, stats, decision, compiled_lock, blk, sifted_data,
                 total_leakage, leakage_term, rng, grng, history, arrays,
                 fidelity_memo, circ, adversary>>

NextBb84 == Bb84Prepare \/ Bb84Signal \/ Bb84Analyze

SpecBb84 == InitBb84 /\ [][NextBb84]_vars

\* ------------------------------------------------ protocols/decoy_mdi_v2.py
\* state_probs: the kinds of pulse rng.choices draws from
PulseTypes == {"signal", "decoy", "vacuum"}
TypeLists(n) == [1 .. n -> PulseTypes]

\* lines 101-107
DecoySift(sd, bsm_result, ak_i, bk_i, ab_i, bb_i) ==
  IF ab_i = bb_i /\ bsm_result # "fail"
  THEN [sd EXCEPT !.sifted_alice = Append(@, ak_i),
                  !.sifted_bob = IF bsm_result = "psi_minus" THEN Append(@, 1 - bk_i)
                                 ELSE Append(@, bk_i)]
  ELSE sd

\* one iteration of the loop, lines 80-107: a round in which either pulse is
\* not a signal is skipped without a draw; the others flip, send and measure
\* as the NoLock rounds of teal.py do, with the same _bsm_mdi
DecoyStep(sd, alice_type, bob_type, noise, loss, ak_i, bk_i, ab_i, bb_i, ds, gs) ==
  IF alice_type # "signal" \/ bob_type # "signal"
  THEN [sd |-> sd, raised |-> FALSE, used |-> 0, gused |-> 0]
  ELSE LET st == SignalStep("teal", "NoLock", noise, loss, ak_i, bk_i, ab_i, bb_i, ds, gs)
       IN [sd |-> IF st.raised THEN sd
                  ELSE DecoySift(sd, st.announce, st.eff_ak_i, st.bk_i, ab_i, bb_i),
           raised |-> st.raised, used |-> st.used, gused |-> st.gused]

\* lines 109-125; qber is None where nothing was sifted
DecoyReport(sd, num_qubits, source_leakage_prob) ==
  LET sifted_len == Len(sd.sifted_alice)
      errors == Mismatches(sd.sifted_alice, sd.sifted_bob)
      results == calculate_finite_key_rate(sifted_len, errors, num_qubits, source_leakage_prob)
  IN IF results.raised # "none" THEN [dict |-> <<>>, raised |-> results.raised]
     ELSE IF num_qubits = 0 THEN [dict |-> <<>>, raised |-> "ZeroDivisionError"]
     ELSE [dict |-> results.dict
                    @@ ("sifting_efficiency" :> (sifted_len * Scale) \div num_qubits)
                    @@ ("total_qubits" :> num_qubits)
                    @@ ("qber" :> IF sifted_len > 0 THEN (errors * Scale) \div sifted_len
                                  ELSE NoneBit),
           raised |-> "none"]

DecoySizes == {0, 1}
DecoyConfigs ==
  {[proto |-> "decoy_mdi", num_qubits |-> n, block_size |-> 1, loss |-> l, noise |-> h,
    leak |-> k, seed |-> 0, num_test_rounds |-> 0] :
     n \in DecoySizes, l \in {0, Scale}, h \in {0, Scale}, k \in RunLeakLevels}

\* a call of run_decoy_mdi_protocol in a fresh process; the protocol has no controller
InitDecoy ==
  /\ \E c \in DecoyConfigs : RunVarsAt(c, None, "prepare")
  /\ FreshProcess(0)

\* lines 64-76: keys, bases and pulse types of both parties
DecoyPrepare ==
  /\ pc = "prepare"
  /\ \E ak \in BitLists(cfg.num_qubits), ab \in BitLists(cfg.num_qubits),
        bk \in BitLists(cfg.num_qubits), bb \in BitLists(cfg.num_qubits),
        alice_types \in TypeLists(cfg.num_qubits), bob_types \in TypeLists(cfg.num_qubits) :
        blk' = [index |-> 0, sig |-> 0, ak |-> ak, ab |-> ab, bk |-> bk, bb |-> bb,
                eff_ak |-> <<>>, alice_types |-> alice_types, bob_types |-> bob_types]
  /\ rng' = [rng EXCEPT !.pos = @ + (6 * cfg.num_qubits)]
  /\ pc' = "signal"
  /\ UNCHANGED <<cfg, ctl, diag, stats, decision, compiled_lock, sifted_data,
                 total_leakage, report, leakage_term, grng, history, arrays,
                 fidelity_memo, circ, adversary>>

DecoySignal ==
  /\ pc = "signal"
  /\ blk.sig < cfg.num_qubits
  /\ \E ds \in [1 .. 5 -> ExtremeRaw], gs \in [1 .. 2 -> {0}] :
        LET i == blk.sig + 1
            res == DecoyStep(sifted_data, blk.alice_types[i], blk.bob_types[i], cfg.noise,
                             cfg.loss, blk.ak[i], blk.bk[i], blk.ab[i], blk.bb[i], ds, gs)
        IN /\ sifted_data' = res.sd
           /\ rng' = [rng EXCEPT !.pos = @ + res.used]
           /\ grng' = [grng EXCEPT !.pos = @ + res.gused]
           /\ pc' = IF res.raised THEN "raised" ELSE "signal"
  /\ blk' = [blk EXCEPT !.sig = @ + 1]
  /\ UNCHANGED <<cfg, ctl, diag, stats, decision, compiled_lock, total_leakage,
                 report, leakage_term, history, arrays, fidelity_memo, circ, adversary>>

DecoyAnalyze ==
  /\ pc = "signal"
  /\ blk.sig = cfg.num_qubits
  /\ LET res == DecoyReport(sifted_data, cfg.num_qubits, cfg.leak)
     IN /\ report' = res.dict
        /\ pc' = IF res.raised = "none" THEN "done" ELSE res.raised
  /\ UNCHANGED <<cfg, ctl, diag, stats, decision, compiled_lock, blk, sifted_data,
                 total_leakage, leakage_term, rng, grng, history, arrays,
                 fidelity_memo, circ, adversary>>

NextDecoy == DecoyPrepare \/ DecoySignal \/ DecoyAnalyze

SpecDecoy == InitDecoy /\ [][NextDecoy]_vars

\* ------------------------------------------- direct calls of the functions
\* A call of one function of analysis/finite_key_analysis_v2.py, of
\* components/channels.py, of physics/evolution.py or of locking/core.py with arguments taken from bounded sets: cfg holds the
\* function and its arguments (seed: that of the generator at hand), report the
\* value returned.
MaxSamples == 40
ProbLevels == {0 - 1000, 0, 100, Scale \div 2, Scale, Scale + 5000}
KeyLengths == {0, 40, 1000}
KeyErrors == {0, 10}
KeyTotals == {0, 1000, 2000}

\* math.log(1 / security_parameter) for the security parameters 1, 0.01 and 1e-9
SecurityLevels == {0, 460517019, LnInvEpsScaled}
ChernoffCalls ==
  {[proto |-> "call", seed |-> 0, fn |-> "chernoff_hoeffding_bound", num_errors |-> e,
    num_samples |-> n, ln_inv_eps |-> k] :
     e \in 0 .. MaxSamples, n \in 0 .. MaxSamples, k \in SecurityLevels}
FiniteKeyCalls ==
  {[proto |-> "call", seed |-> 0, fn |-> "calculate_finite_key_rate", sifted_key_len |-> n,
    num_errors |-> e, total_initial_qubits |-> t, source_leakage_rate |-> l] :
     n \in KeyLengths, e \in KeyErrors, t \in KeyTotals, l \in ProbLevels}
\* the gates handed to _gate_on_n, by name
GateNames == RotationNames \cup {"CNOT", "SWAP", "CNOT_XZ"}
GateMatrix(name) ==
  IF name \in RotationNames THEN Rotation(name)
  ELSE IF name = "CNOT" THEN CNOT_2
  ELSE IF name = "SWAP" THEN SWAP_2
  ELSE local_pair_gate_from_rotations(PauliX, PauliZ)
\* ordered lists of one or two distinct qubits of an n-qubit register
TargetLists(n) ==
  {<<a>> : a \in 0 .. (n - 1)}
     \cup {ts \in (0 .. (n - 1)) \X (0 .. (n - 1)) : ts[1] # ts[2]}
GateCalls ==
  {[proto |-> "call", seed |-> 0, fn |-> "_gate_on_n", gate |-> g, n_qubits |-> sz[1],
    targets |-> sz[2]] :
     g \in GateNames, sz \in UNION {{<<n, ts>> : ts \in TargetLists(n)} : n \in 1 .. MaxN}}
\* abstract gate lists of up to MaxGates gates on n qubits
MaxGates == 2
\* width of the widest linear chain handed to compile_circuit
MaxWires == 4
CompileRotations == {<<"I", "X">>, <<"X", "Z">>, <<"Z", "I">>}
CompileGates(n) == {g \in AbstractGates(n) : <<g.Rc, g.Rt>> \in CompileRotations}
CompileCall(n, gl) ==
  [proto |-> "call", seed |-> 0, fn |-> "compile_circuit", n_qubits |-> n, gate_list |-> gl]
ChannelCalls ==
  {[proto |-> "call", seed |-> 0, fn |-> "apply_lossy_channel", photon_state |-> q,
    loss_probability |-> l, gen |-> g] :
     q \in StateNames \cup {None}, l \in ProbLevels, g \in {"rng", None}}

\* the streams handed to run_aether_analysis: a recycled pair of rc_len entries
\* of which the first rc_wrong disagree, and a high-quality pair
RcLengths == {0, DiagMinSamples, DiagMinSamples + 1, DiagMinSamples + 4}
HqLengths == {0, 2}
AnalysisStreams ==
  {[sifted_alice |-> <<>>, sifted_bob |-> <<>>, hq_alice |-> ha, hq_bob |-> hb,
    rc_alice |-> [i \in 1 .. w[1] |-> 0],
    rc_bob |-> [i \in 1 .. w[1] |-> IF i <= w[2] THEN 1 ELSE 0]] :
     w \in {x \in RcLengths \X {0, 1, DiagMinSamples + 1} : x[2] <= x[1]},
     ha \in UNION {BitLists(h) : h \in HqLengths},
     hb \in UNION {BitLists(h) : h \in HqLengths}}
AnalysisCalls ==
  {[proto |-> "call", seed |-> 0, fn |-> "run_aether_analysis", sifted_data |-> sd,
    total_initial_qubits |-> t, is_lock_mode |-> m, source_leakage_prob |-> l] :
     sd \in {x \in AnalysisStreams : Len(x.hq_alice) = Len(x.hq_bob)},
     t \in {0, 8}, m \in BOOLEAN, l \in {0, 100}}

InitCall ==
  /\ \/ \E c \in ChernoffCalls \cup FiniteKeyCalls \cup ChannelCalls \cup GateCalls :
           RunVarsAt(c, None, "call")
     \/ \E c \in AnalysisCalls : RunVarsAt(c, None, "call")
     \/ \E n \in 2 .. MaxWires, len \in 0 .. MaxGates :
           \E gl \in [1 .. len -> CompileGates(n)] :
              RunVarsAt(CompileCall(n, gl), None, "call")
  /\ FreshProcess(0)

callVars == <<cfg, ctl, diag, stats, decision, compiled_lock, blk, sifted_data,
              total_leakage, history, arrays, fidelity_memo, circ, adversary>>

CallChernoff ==
  /\ pc = "call"
  /\ cfg.fn = "chernoff_hoeffding_bound"
  /\ report' = [value |-> ChernoffBound(cfg.num_errors, cfg.num_samples, cfg.ln_inv_eps)]
  /\ pc' = "done"
  /\ UNCHANGED <<callVars, leakage_term, rng, grng>>

CallFiniteKeyRate ==
  /\ pc = "call"
  /\ cfg.fn = "calculate_finite_key_rate"
  /\ LET res == calculate_finite_key_rate(cfg.sifted_key_len, cfg.num_errors,
                                          cfg.total_initial_qubits, cfg.source_leakage_rate)
     IN /\ report' = res.dict
        /\ leakage_term' = res.leakage_term
        /\ pc' = IF res.raised = "none" THEN "done" ELSE res.raised
  /\ UNCHANGED <<callVars, rng, grng>>

CallChannel ==
  /\ pc = "call"
  /\ cfg.fn = "apply_lossy_channel"
  /\ \E rLocal \in ExtremeRaw, rGlobal \in ExtremeRaw :
        LET res == apply_lossy_channel(cfg.photon_state, cfg.loss_probability, cfg.gen,
                                       rLocal, rGlobal)
        IN /\ report' = IF res.raised THEN NoReport ELSE [value |-> res.state]
           /\ rng' = [rng EXCEPT !.pos = @ + (IF res.drawn = "rng" THEN 1 ELSE 0)]
           /\ grng' = [grng EXCEPT !.pos = @ + (IF res.drawn = "global" THEN 1 ELSE 0)]
           /\ pc' = IF res.raised THEN "ValueError" ELSE "done"
  /\ UNCHANGED <<callVars, leakage_term>>

CallGateOnN ==
  /\ pc = "call"
  /\ cfg.fn = "_gate_on_n"
  /\ LET full == _gate_on_n(GateMatrix(cfg.gate), cfg.n_qubits, cfg.targets)
     IN /\ report' = IF MatDim(full) = 0 THEN NoReport ELSE [value |-> full]
        /\ pc' = IF MatDim(full) = 0 THEN "ValueError" ELSE "done"
  /\ UNCHANGED <<callVars, leakage_term, rng, grng>>

CallCompile ==
  /\ pc = "call"
  /\ cfg.fn = "compile_circuit"
  /\ report' = [value |-> compile_circuit(cfg.n_qubits, cfg.gate_list)]
  /\ pc' = "done"
  /\ UNCHANGED <<callVars, leakage_term, rng, grng>>

CallAetherAnalysis ==
  /\ pc = "call"
  /\ cfg.fn = "run_aether_analysis"
  /\ LET res == run_aether_analysis(cfg.sifted_data, cfg.total_initial_qubits,
                                    cfg.is_lock_mode, cfg.source_leakage_prob)
     IN /\ report' = res.dict
        /\ leakage_term' = res.leakage_term
        /\ pc' = "done"
  /\ UNCHANGED <<callVars, rng, grng>>

NextCall ==
  \/ CallChernoff \/ CallFiniteKeyRate \/ CallChannel \/ CallGateOnN \/ CallCompile
  \/ CallAetherAnalysis

SpecCall == InitCall /\ [][NextCall]_vars

\* ------------------------------------------------------------- claims
\* C1: in every protocol run, after any number of processed signals, each
\* stream pair has equal lengths: hq_alice and hq_bob, rc_alice and rc_bob,
\* sifted_alice and sifted_bob.
C1_PairedLengths ==
  /\ Len(sifted_data.hq_alice) = Len(sifted_data.hq_bob)
  /\ Len(sifted_data.rc_alice) = Len(sifted_data.rc_bob)
  /\ Len(sifted_data.sifted_alice) = Len(sifted_data.sifted_bob)

\* a two-stream run that has appended to both pairs
C1_Witness ==
  /\ cfg.proto \in {"aether", "aether_v3"}
  /\ Len(sifted_data.hq_alice) >= 1
  /\ Len(sifted_data.rc_alice) >= 1

\* C2: make_adaptive_decision returns NoLock with depth 0 if and only if both
\* upper bounds are strictly below their thresholds; in every other case,
\* equality included, it returns Lock with depth 8.
C2_DecisionRule ==
  pc = "decided" =>
    LET both_below == /\ stats.qber_upper_bound < ctl.qber_threshold
                      /\ stats.leakage_upper_bound < ctl.leakage_threshold
    IN /\ both_below => decision = [mode |-> "NoLock", locking_depth |-> 0]
       /\ ~both_below => decision = [mode |-> "Lock", locking_depth |-> 8]

\* a decision taken with the QBER bound equal to its threshold and the leakage
\* bound below its threshold
C2_Witness ==
  /\ pc = "decided"
  /\ stats.qber_upper_bound = ctl.qber_threshold
  /\ stats.leakage_upper_bound < ctl.leakage_threshold
  /\ decision.mode = "Lock"

\* C3: when fewer than 30 diagnostic rounds sift, run_diagnostics returns,
\* without raising, qber_mean 0.5, qber_upper_bound 1.0, leakage_upper_bound 1.0
\* and the decision made from them is Lock for every threshold setting of the
\* controller; with 30 or more sifted samples the fail-safe branch is not taken.
C3_FailSafeForcesLock ==
  [][/\ (pc = "diag" /\ diag.i = cfg.num_test_rounds /\ diag.sifted_alice < 30) =>
          /\ pc' = "decided"
          /\ stats'.qber_mean = 5000
          /\ stats'.qber_upper_bound = 10000
          /\ stats'.leakage_upper_bound = 10000
          /\ decision'.mode = "Lock"
     /\ (pc = "diag" /\ diag.i = cfg.num_test_rounds /\ diag.sifted_alice >= 30) =>
          ~stats'.failsafe]_vars

\* C4: with qber_threshold = leakage_threshold = 0 the mode is Lock for every
\* loss level, leakage level and sequence of draws of the diagnostics.
C4_ZeroThresholdsLock ==
  (pc = "decided" /\ ctl.qber_threshold = 0 /\ ctl.leakage_threshold = 0) =>
     decision.mode = "Lock"

\* a decision with both thresholds 0 taken from computed stats whose QBER bound is 0
C4_Witness ==
  /\ pc = "decided"
  /\ ctl.qber_threshold = 0
  /\ ctl.leakage_threshold = 0
  /\ ~stats.failsafe
  /\ stats.qber_upper_bound = 0
  /\ decision.mode = "Lock"

\* C5: for every abstract gate on (c, t) with c # t, in both orders and at every
\* distance, the unitary of the sequence emitted by compile_circuit equals the
\* gate's rotation-then-entangle primitive applied directly to the ordered
\* target list [c, t].
C5_CompiledEqualsDirect ==
  circ.pc = "built" =>
     LET g == circ.gate_list[1]
     IN circ.U = _gate_on_n(local_pair_gate_from_rotations(Rotation(g.Rc), Rotation(g.Rt)),
                            circ.n_qubits, <<g.c, g.t>>)

\* the same for the abstract gates with c < t
C5_AscendingOnly ==
  (circ.pc = "built" /\ circ.gate_list[1].c < circ.gate_list[1].t) =>
     LET g == circ.gate_list[1]
     IN circ.U = _gate_on_n(local_pair_gate_from_rotations(Rotation(g.Rc), Rotation(g.Rt)),
                            circ.n_qubits, <<g.c, g.t>>)

\* C6: two runs of run_teal_protocol with identical configuration, thresholds
\* and seed, executed in one process in either order and with any other runs in
\* between, produce identical sifted streams and identical reports.
C6_Deterministic ==
  \A i \in DOMAIN history : \A j \in DOMAIN history :
     (history[i].cfg = history[j].cfg /\ history[i].ctl = history[j].ctl) =>
        /\ history[i].sifted_data = history[j].sifted_data
        /\ history[i].report = history[j].report
        /\ history[i].outcome = history[j].outcome

\* the same for two runs of run_teal_protocol between which no other protocol ran
C6_ConsecutiveRuns ==
  \A i \in DOMAIN history : \A j \in DOMAIN history :
     (/\ i < j
      /\ history[i].cfg = history[j].cfg /\ history[i].ctl = history[j].ctl
      /\ \A k \in (i + 1) .. (j - 1) : history[k].cfg.proto = "teal") =>
        /\ history[i].sifted_data = history[j].sifted_data
        /\ history[i].report = history[j].report
        /\ history[i].outcome = history[j].outcome

\* C11: a Lock run whose locking depth is forced to 0 produces the same sifted
\* streams, entry for entry, as a NoLock run with the identical configuration,
\* hardware noise probability and seed.
C11_IdentityLockIsNoLock ==
  \A i \in DOMAIN history : \A j \in DOMAIN history :
     (/\ history[i].ctl = IdentityLockController
      /\ history[j].ctl = NoLockController
      /\ history[i].cfg = history[j].cfg) =>
        history[i].sifted_data = history[j].sifted_data

\* C12: after any sequence of protocol runs in one process,
\* prepare_bb84_qubit(bit, basis) returns the same state vector as before those
\* runs, for each of the four inputs.
C12_PreparedStatesUnchanged ==
  \A bit \in Bit, basis \in Bit :
     arrays[prepare_bb84_qubit(bit, basis)] = InitialArrays[prepare_bb84_qubit(bit, basis)]

\* C13: during a protocol run every random draw is taken from the generator
\* built from the run's seed: the process-wide generator of module random is
\* never drawn from.
C13_NoGlobalDraws == grng.pos = 0

\* C14: every report returned by run_teal_protocol, that of a run with zero
\* sifted length included, holds the observed QBER, the secure key rate, the
\* sifted key length and the mode chosen, and its sifted key length is the
\* length of the sifted stream.
C14_ReportFields ==
  (pc = "done" /\ cfg.proto = "teal") =>
     /\ {"qber_obs", "secure_key_rate", "sifted_key_length", "mode_chosen"} \subseteq DOMAIN report
     /\ report["sifted_key_length"] = Len(sifted_data.sifted_alice)

\* C15: a protocol run that ends with zero sifted length or that was given zero
\* signals returns, without raising, a report whose secure key rate is 0.
C15_ZeroResult ==
  (/\ pc \notin {"prepare", "signal"}
   /\ (cfg.num_qubits = 0 \/ Len(sifted_data.sifted_alice) = 0)) =>
       /\ pc = "done"
       /\ report["secure_key_rate"] = 0

\* C16: for NoLock results that agree in sifted length, error count and total
\* signals and whose rate at leakage 0 is positive, the secure key rate at every
\* leakage rate above 0, up to and including 1, is strictly smaller than the
\* rate at leakage 0.
C16_LeakageCostsRate ==
  (/\ pc = "done"
   /\ cfg.fn = "calculate_finite_key_rate"
   /\ 0 < cfg.source_leakage_rate /\ cfg.source_leakage_rate <= Scale) =>
      LET at0 == calculate_finite_key_rate(cfg.sifted_key_len, cfg.num_errors,
                                           cfg.total_initial_qubits, 0).dict["secure_key_rate"]
      IN at0 > 0 => report["secure_key_rate"] < at0

\* C17: apply_lossy_channel rejects a loss probability outside [0, 1] with an
\* invalid-argument error for every input state, an already lost (None) photon
\* included, and returns nothing.
C17_OutOfRangeRejected ==
  (/\ pc # "call"
   /\ cfg.fn = "apply_lossy_channel"
   /\ ~(0 <= cfg.loss_probability /\ cfg.loss_probability <= Scale)) =>
      /\ pc = "ValueError"
      /\ report = NoReport

\* C19: chernoff_hoeffding_bound returns exactly 1.0 when the sample count is
\* 0, never returns more than 1.0, and for a fixed observed error rate and
\* security parameter does not increase when the sample count increases.
C19_ChernoffBound ==
  (pc = "done" /\ cfg.fn = "chernoff_hoeffding_bound") =>
     /\ cfg.num_samples = 0 => report.value = Scale
     /\ report.value <= Scale
     /\ cfg.num_samples > 0 =>
          \A m \in cfg.num_samples .. MaxSamples :
             (cfg.num_errors * m) % cfg.num_samples = 0 =>
                ChernoffBound((cfg.num_errors * m) \div cfg.num_samples, m, cfg.ln_inv_eps)
                   <= report.value

\* a call with 1 error in 20 samples whose bound is below 1.0 and above the
\* bound of 2 errors in 40 samples
C19_Witness ==
  /\ pc = "done"
  /\ cfg.fn = "chernoff_hoeffding_bound"
  /\ cfg.num_errors = 1
  /\ cfg.num_samples = 20
  /\ report.value < Scale
  /\ ChernoffBound(2, 40, cfg.ln_inv_eps) < report.value

\* C18: for every n, every 1- or 2-qubit gate and every ordered list of
\* targets, ascending or not, adjacent or not, the operator built by _gate_on_n
\* maps each basis state only to basis states whose non-target bits are
\* unchanged and whose target bits are the gate's image of the input target bits
\* taken in the given target order; a gate whose dimension is not 2^k for k
\* targets is rejected with an error.
C18_GateOnTargetsOnly ==
  (pc # "call" /\ cfg.fn = "_gate_on_n") =>
     LET gate == GateMatrix(cfg.gate)
         n == cfg.n_qubits
         k == Len(cfg.targets)
         others == {q \in 0 .. (n - 1) : \A x \in 1 .. k : cfg.targets[x] # q}
     IN IF MatDim(gate) # 2 ^ k
        THEN pc = "ValueError" /\ report = NoReport
        ELSE /\ pc = "done"
             /\ \A i \in 0 .. ((2 ^ n) - 1) : \A j \in 0 .. ((2 ^ n) - 1) :
                   report.value[j][i] =
                      (IF \A q \in others : BitOf(j, n, q) = BitOf(i, n, q)
                       THEN gate[LocalIdx(j, n, cfg.targets, 1)][LocalIdx(i, n, cfg.targets, 1)]
                       ELSE 0)

\* CNOT with control qubit 2 and target qubit 0 of three: |001> goes to |101>
C18_Witness ==
  /\ pc = "done"
  /\ cfg.fn = "_gate_on_n"
  /\ cfg.gate = "CNOT"
  /\ cfg.n_qubits = 3
  /\ cfg.targets = <<2, 0>>
  /\ report.value[5][1] = 1

\* a 2-qubit gate handed over with one target is rejected
C18_WitnessMismatch ==
  /\ pc = "ValueError"
  /\ cfg.fn = "_gate_on_n"
  /\ cfg.gate = "SWAP"
  /\ Len(cfg.targets) = 1

\* C20: every gate emitted by compile_circuit, Swap or Entangle, acts on two
\* hardware indices that differ by exactly 1 and lie in [0, n), for every
\* abstract gate list on distinct in-range qubits; the Entangle gates appear in
\* the compiled sequence in the same number and order as in the abstract list.
IsEntangle(g) == g.type = "G"
FirstIndex(g) == IF g.type = "SWAP" THEN g.a ELSE g.c
SecondIndex(g) == IF g.type = "SWAP" THEN g.b ELSE g.t
C20_CompiledAdjacent ==
  (pc = "done" /\ cfg.fn = "compile_circuit") =>
     LET compiled == report.value
         entangle == SelectSeq(compiled, IsEntangle)
     IN /\ \A x \in DOMAIN compiled :
             /\ FirstIndex(compiled[x]) \in 0 .. (cfg.n_qubits - 1)
             /\ SecondIndex(compiled[x]) \in 0 .. (cfg.n_qubits - 1)
             /\ \/ FirstIndex(compiled[x]) - SecondIndex(compiled[x]) = 1
                \/ SecondIndex(compiled[x]) - FirstIndex(compiled[x]) = 1
        /\ Len(entangle) = Len(cfg.gate_list)
        /\ \A x \in DOMAIN entangle :
             /\ entangle[x].Rc = cfg.gate_list[x].Rc
             /\ entangle[x].Rt = cfg.gate_list[x].Rt
             /\ entangle[x].t = cfg.gate_list[x].t

\* a list of two gates, the first of them on the distant pair (0, 2), compiled
\* into Swap, Entangle, Swap, Entangle
C20_Witness ==
  /\ pc = "done"
  /\ cfg.fn = "compile_circuit"
  /\ Len(cfg.gate_list) = 2
  /\ cfg.gate_list[1].c = 0 /\ cfg.gate_list[1].t = 2
  /\ cfg.gate_list[1].Rc # cfg.gate_list[2].Rc
  /\ Len(report.value) = 4
  /\ report.value[1].type = "SWAP"
  /\ report.value[2].type = "G" /\ report.value[2].c = 1 /\ report.value[2].t = 2

\* WireMap(n, compiled) is the qubit found on each wire after the Swaps of compiled
RECURSIVE ApplySwaps(_, _)
ApplySwaps(wires, compiled) ==
  IF compiled = <<>> THEN wires
  ELSE LET g == Head(compiled)
       IN ApplySwaps(IF g.type = "SWAP"
                     THEN [wires EXCEPT ![g.a] = wires[g.b], ![g.b] = wires[g.a]]
                     ELSE wires,
                     Tail(compiled))
WireMap(n, compiled) == ApplySwaps([w \in 0 .. (n - 1) |-> w], compiled)

\* C21: for each routed abstract gate, the Swaps emitted before the Entangle
\* gate followed by the Swaps emitted after it compose to the identity
\* permutation of wires, so after every fully emitted abstract gate the
\* qubit-to-wire mapping is the original one.
C21_SwapsRestoreWires ==
  (pc = "done" /\ cfg.fn = "compile_circuit") =>
     \A done \in 0 .. Len(cfg.gate_list) :
        LET emitted == Len(compile_circuit(cfg.n_qubits, SubSeq(cfg.gate_list, 1, done)))
        IN /\ emitted <= Len(report.value)
           /\ WireMap(cfg.n_qubits, SubSeq(report.value, 1, emitted))
                 = [w \in 0 .. (cfg.n_qubits - 1) |-> w]

\* a gate on the pair (0, 3) of four wires, routed through two Swaps before
\* and two after the Entangle gate on (2, 3), followed by a second gate
C21_Witness ==
  /\ pc = "done"
  /\ cfg.fn = "compile_circuit"
  /\ cfg.n_qubits = 4
  /\ Len(cfg.gate_list) = 2
  /\ cfg.gate_list[1].c = 0 /\ cfg.gate_list[1].t = 3
  /\ Len(report.value) >= 6
  /\ report.value[2] = [type |-> "SWAP", a |-> 1, b |-> 2]
  /\ report.value[3].type = "G" /\ report.value[3].c = 2
  /\ report.value[4] = [type |-> "SWAP", a |-> 1, b |-> 2]
  /\ WireMap(4, SubSeq(report.value, 1, 2)) # [w \in 0 .. 3 |-> w]

\* C22: in Lock mode, for every block, the bits Alice effectively transmits
\* differ from the bits she drew in at most one position: exactly one position,
\* inside the block, when the fidelity-collapse flip fires and none otherwise;
\* the per-signal hardware bit-flip is never applied to Alice's bits in Lock mode.
C22_LockFlipsAtMostOne ==
  (decision.mode = "Lock" /\ IsProtocol /\ blk.ak # <<>>) =>
     /\ blk.flip \in (0 - 1) .. (cfg.block_size - 1)
     /\ \A i \in DOMAIN blk.ak : (blk.eff_ak[i] # blk.ak[i]) <=> (i = blk.flip + 1)

\* a Lock run of teal.py with hardware noise whose lock step flipped the second
\* bit of a block of two, after both signals of the block were processed
C22_Witness ==
  /\ decision.mode = "Lock"
  /\ cfg.proto = "teal"
  /\ cfg.noise > 0
  /\ cfg.block_size = 2
  /\ blk.sig = 2
  /\ blk.flip = 1
  /\ blk.eff_ak[2] # blk.ak[2]
  /\ blk.eff_ak[1] = blk.ak[1]

\* C23: with hardware noise probability 0, or with an empty compiled circuit at
\* any noise level, evolving a block state through the compiled lock and then
\* applying the precomputed inverse returns the block's original state for
\* every block and every generated circuit, so fidelity is 1 and the lock step
\* flips no bit.
C23_UnlockRestores ==
  (/\ circ.pc \in {"evolve", "unlocked"}
   /\ circ.idx = Len(circ.compiled_list)
   /\ (circ.noise_p = 0 \/ circ.compiled_list = <<>>)) =>
      /\ MatMul(circ.U_unlock, circ.E) = Ident(2 ^ circ.n_qubits)
      /\ circ.pc = "unlocked" => (circ.fidelity = Scale /\ circ.flip = 0 - 1)

\* a routed gate on the pair (2, 0) of three qubits, evolved without noise and
\* unlocked
C23_Witness ==
  /\ circ.pc = "unlocked"
  /\ circ.noise_p = 0
  /\ circ.n_qubits = 3
  /\ Len(circ.compiled_list) = 3
  /\ circ.gate_list[1].c = 2
  /\ circ.E # Ident(8)
  /\ circ.fidelity = Scale

\* C24: for every processed signal of an AETHER run: if either party's photon
\* is lost (the relay announces "fail") nothing is appended to any stream; if
\* the relay succeeds exactly one entry is appended to exactly one stream pair,
\* the high-quality pair if and only if the two bases are equal and the
\* recycled pair otherwise; entries appended earlier are never changed or
\* removed.
C24_OneAppendPerSuccess ==
  [][cfg.proto \in {"aether", "aether_v3"} =>
       LET Kept(f) == sifted_data'[f] = sifted_data[f]
           Grew(f) == /\ Len(sifted_data'[f]) = Len(sifted_data[f]) + 1
                      /\ SubSeq(sifted_data'[f], 1, Len(sifted_data[f])) = sifted_data[f]
       IN IF pc = "signal" /\ pc' # "raised"
          THEN LET i == blk.sig + 1
               IN IF blk'.announce = "fail"
                  THEN sifted_data' = sifted_data
                  ELSE IF blk.ab[i] = blk.bb[i]
                  THEN /\ Grew("hq_alice") /\ Grew("hq_bob")
                       /\ Kept("rc_alice") /\ Kept("rc_bob") /\ Kept("sifted_alice")
                       /\ Kept("sifted_bob")
                  ELSE /\ Grew("rc_alice") /\ Grew("rc_bob")
                       /\ Kept("hq_alice") /\ Kept("hq_bob") /\ Kept("sifted_alice")
                       /\ Kept("sifted_bob")
          ELSE sifted_data' = sifted_data]_vars

\* an aether_v3 run that lost a photon of its first signal and appended the
\* second, whose bases differ, to the recycled pair
C24_Witness ==
  /\ cfg.proto = "aether_v3"
  /\ cfg.loss > 0
  /\ blk.sig = 2
  /\ blk.announce # "fail"
  /\ blk.ab[2] # blk.bb[2]
  /\ Len(sifted_data.rc_alice) = 1
  /\ Len(sifted_data.rc_bob) = 1
  /\ sifted_data.hq_alice = <<>>

\* C25: in every run, run_diagnostics and make_adaptive_decision are each
\* called exactly once and before any signal's bit or basis is drawn; in Lock
\* mode the locking circuit is generated, compiled and inverted exactly once,
\* before the first block; the mode does not change during the run and the
\* report's mode_chosen equals the controller's decision.
C25_DecidedOnceBeforeBlocks ==
  /\ [](IsProtocol =>
          /\ pc = "diag" => (decision = NoDecision /\ compiled_lock = 0 - 1 /\ blk = NoBlock)
          /\ (pc \in {"block", "signal", "done"} \/ blk # NoBlock) =>
                /\ decision.mode \in {"Lock", "NoLock"}
                /\ diag = NoDiag
                /\ (compiled_lock # 0 - 1) <=> (decision.mode = "Lock")
          /\ pc = "done" => report.mode_chosen = decision.mode)
  /\ [][IsProtocol =>
          /\ (decision' # decision \/ compiled_lock' # compiled_lock) =>
                (pc = "diag" /\ diag.i = cfg.num_test_rounds /\ decision = NoDecision
                 /\ blk = NoBlock)
          /\ diag' # diag => pc = "diag"]_vars

\* a finished run in Lock mode that has processed a block
C25_Witness ==
  /\ IsProtocol
  /\ pc = "done"
  /\ decision.mode = "Lock"
  /\ report.mode_chosen = "Lock"
  /\ compiled_lock >= 0
  /\ blk.index = 1
  /\ blk.sig = cfg.block_size

\* C26: run_aether_analysis reports diagnostic_qber = (mismatches in the
\* recycled stream) / (recycled length) when the recycled stream has more than
\* 20 entries and 0 when it has 20 or fewer; this value alone is the noise-cost
\* term of the high-quality stream's rate, so two inputs that differ only in
\* Bob's high-quality bits give the same report.
C26_DiagnosticQberAlone ==
  (pc = "done" /\ cfg.fn = "run_aether_analysis") =>
     LET sd == cfg.sifted_data
         rc_len == Len(sd.rc_alice)
         wrong == Cardinality({i \in 1 .. rc_len : sd.rc_alice[i] # sd.rc_bob[i]})
     IN /\ report.diagnostic_qber =
              (IF rc_len > DiagMinSamples THEN (wrong * Scale) \div rc_len ELSE 0)
        /\ \A hq_bob \in BitLists(Len(sd.hq_alice)) :
              run_aether_analysis([sd EXCEPT !.hq_bob = hq_bob], cfg.total_initial_qubits,
                                  cfg.is_lock_mode, cfg.source_leakage_prob).dict = report

\* 21 recycled entries of which one disagrees, and a high-quality pair that
\* disagrees everywhere, with a positive rate
C26_Witness ==
  /\ pc = "done"
  /\ cfg.fn = "run_aether_analysis"
  /\ Len(cfg.sifted_data.rc_alice) = DiagMinSamples + 1
  /\ report.diagnostic_qber = Scale \div (DiagMinSamples + 1)
  /\ cfg.sifted_data.hq_alice = <<0, 1>>
  /\ cfg.sifted_data.hq_bob = <<1, 0>>
  /\ report.secure_key_rate > 0

\* C27: in every run that takes an adversary, the adversary's mode transition
\* (adapt_to_protocol_choice) is invoked exactly once, after the controller's
\* decision is known and before the first source attack of the run; from then
\* on the attack strength is the elevated value (twice the base) if and only if
\* the mode is NoLock and the base value if the mode is Lock, and invoking the
\* transition again with the same mode does not change it.
C27_AdaptOnceBeforeAttacks ==
  cfg.proto = "adversary" =>
     /\ pc \in {"start", "diag", "decided"} => adversary.adapt_calls = 0
     /\ (pc \in {"attack", "done"} \/ adversary.attacks > 0) =>
           /\ adversary.adapt_calls = 1
           /\ adversary.class = "AdaptiveAdversary" =>
                 /\ AttackStrength(adversary) =
                       (IF decision.mode = "NoLock" THEN 2 * adversary.base_strength
                                                    ELSE adversary.base_strength)
                 /\ adapt_to_protocol_choice(adversary, decision.mode).current_strength
                       = adversary.current_strength

\* C28: whenever run_diagnostics sifts at least 30 samples, every sifted
\* diagnostic pair agrees, so qber_mean = 0 and qber_upper_bound = 0 for every
\* loss level and every sequence of random draws; the QBER condition of the
\* decision is then true exactly when qber_threshold > 0 and the mode depends
\* only on the leakage bound.
C28_DiagnosticPairsAgree ==
  cfg.proto = "controller" =>
     /\ diag.errors = 0
     /\ diag.sifted_bob = diag.sifted_alice
     /\ (pc = "decided" /\ ~stats.failsafe) =>
           /\ stats.qber_mean = 0
           /\ stats.qber_upper_bound = 0
           /\ is_qber_safe(ctl, stats) <=> (ctl.qber_threshold > 0)
           /\ (decision.mode = "NoLock") <=>
                 (ctl.qber_threshold > 0 /\ stats.leakage_upper_bound < ctl.leakage_threshold)

\* a decision NoLock taken from 30 or more samples sifted over a lossy channel
C28_Witness ==
  /\ cfg.proto = "controller"
  /\ pc = "decided"
  /\ ~stats.failsafe
  /\ cfg.loss > 0
  /\ stats.qber_upper_bound = 0
  /\ ctl.qber_threshold > 0
  /\ decision.mode = "NoLock"

\* C29: in run_teal_protocol, after any number of processed signals,
\* sifted_alice and sifted_bob are equal element by element for every
\* hardware-noise probability, every loss probability and both modes, so the
\* error count handed to the analysis is 0 in every run.
C29_TealStreamsEqual ==
  cfg.proto = "teal" =>
     /\ Len(sifted_data.sifted_alice) = Len(sifted_data.sifted_bob)
     /\ \A k \in DOMAIN sifted_data.sifted_alice :
           sifted_data.sifted_alice[k] = sifted_data.sifted_bob[k]
     /\ Mismatches(sifted_data.sifted_alice, sifted_data.sifted_bob) = 0
     /\ pc = "done" => report.qber_obs = 0

\* a finished NoLock run of teal.py over a noisy, lossy link in which the
\* hardware noise flipped Alice's second bit and both signals were sifted
C29_Witness ==
  /\ cfg.proto = "teal"
  /\ pc = "done"
  /\ decision.mode = "NoLock"
  /\ cfg.noise > 0
  /\ cfg.loss > 0
  /\ cfg.block_size = 2
  /\ blk.eff_ak[2] # blk.ak[2]
  /\ Len(sifted_data.sifted_alice) = 2

\* C30: for every true source leakage in [0,1], every channel loss in [0,1],
\* every number of test rounds >= 0 and every value of the Gaussian estimation
\* noise, run_diagnostics returns a stats record (computed or fail-safe) and
\* never raises: the leakage estimate whose variance is taken always lies in
\* [0,1].
C30_DiagnosticsNeverRaise ==
  (/\ cfg.proto = "controller"
   /\ cfg.leak \in 0 .. Scale
   /\ cfg.loss \in 0 .. Scale
   /\ cfg.num_test_rounds >= 0) =>
      /\ pc # "raised"
      /\ ~stats.raised

\* C7: in a run whose mode is Lock the leakage rate used in the key-rate formula
\* is 0; in a run whose mode is NoLock it is the configured rate (teal.py) or the
\* experienced rate total_leakage / num_blocks (aether.py, aether_v3.py).
C7_LeakageInFormula ==
  (pc = "done" /\ leakage_term # 0 - 1) =>
     /\ decision.mode = "Lock" => leakage_term = 0
     /\ decision.mode = "NoLock" =>
          leakage_term = (IF cfg.proto = "teal" THEN cfg.leak
                          ELSE IF NumBlocks > 0 THEN (total_leakage * Scale) \div NumBlocks
                          ELSE 0)

\* a finished Lock run of teal.py with a configured leakage above 0
C7_Witness ==
  /\ pc = "done"
  /\ cfg.proto = "teal"
  /\ decision.mode = "Lock"
  /\ cfg.leak > 0
  /\ leakage_term = 0

\* C8: a run whose block size does not divide the number of signals is
\* rejected; no run returns a report after leaving the remainder unprocessed.
C8_RemainderRejected ==
  pc = "done" => cfg.num_qubits % cfg.block_size = 0

\* C9: with hardware noise 0 and loss 0, every entry of the recycled stream has
\* Bob's recovered bit equal to Alice's bit, and the reported diagnostic QBER is 0.
C9_RecycledAgree ==
  (cfg.noise = 0 /\ cfg.loss = 0) =>
     /\ sifted_data.rc_alice = sifted_data.rc_bob
     /\ (pc = "done" /\ cfg.proto # "teal") => report["diagnostic_qber"] = 0

\* C10: with hardware noise 0, every entry of the high-quality (matched-basis)
\* stream has Bob's recovered bit equal to Alice's bit, in both modes and at
\* every loss, and the observed QBER is 0.
C10_HighQualityAgree ==
  cfg.noise = 0 =>
     /\ sifted_data.hq_alice = sifted_data.hq_bob
     /\ sifted_data.sifted_alice = sifted_data.sifted_bob
     /\ (pc = "done" /\ cfg.proto = "teal") => report["qber_obs"] = 0

\* a noiseless Lock run of aether_v3.py with two high-quality entries
C10_Witness ==
  /\ cfg.noise = 0
  /\ cfg.proto = "aether_v3"
  /\ decision.mode = "Lock"
  /\ Len(sifted_data.hq_alice) = 2

====
